---------------------------- MODULE Spec2Model ----------------------------
(***************************************************************************)
(* A model of the automata library: the packed deterministic graph, the    *)
(* non-deterministic graph, Dfa, Nfa and the regex DAG.                    *)
(*                                                                         *)
(* Conventions.  Rust vectors are sequences; a Rust index i is the         *)
(* sequence index i + 1.  Option<T> is <<>> (None) or <<x>> (Some(x)).     *)
(* A call that aborts (panic!, unwrap on None, a failed assert!) returns   *)
(* Panic(msg).  The alphabet type A is instantiated with the two ordered   *)
(* symbols 1 < 2.  In a finished non-deterministic graph the label 0 is    *)
(* Label::EPSILON and the label k + 1 is Label::character(k).              *)
(***************************************************************************)
EXTENDS Integers, Sequences, FiniteSets, TLC

VARIABLES
    pc,         \* the operation that acted last
    edge_iter,  \* the edge list handed to from_edges
    finals_in,  \* the list of final states handed to from_edges
    dfa,        \* the Dfa `self`, or Panic, or Null
    rhs,        \* a second Dfa: the right operand of pair, or a conversion's result
    nfa,        \* the Nfa `self`, or Panic, or Null
    arg,        \* the argument of the operation that acted last
    ret,        \* the value the operation that acted last returned
    dmas,       \* the store of Dma values: the template and the clones of the Runs
    runs,       \* the Runs started from the template
    regex_self, \* the Regex or Cached that push and insert are called on
    graph_self  \* the Deterministic graph that node and the edge writes are called on,
                \* or the Builder that insert and finish are called on

vars == <<pc, edge_iter, finals_in, dfa, rhs, nfa, arg, ret, dmas, runs, regex_self, graph_self>>

---------------------------------------------------------------------------
(* Bounds of the model. *)

\* Node ids of the inputs range over 0..MaxNode.
MaxNode == 1
\* Longest edge list handed to from_edges.
MaxEdges == 2
\* Longest list of final states handed to from_edges.
MaxFinals == 1
\* Longest word queried.
MaxWord == 3
\* Longest alphabet extension handed to into_dfa.
MaxExtension == 1
\* Most nodes of a Dfa given by a total transition function.
MaxPairNodes == 2
\* Most states given to a Dma with new_state; edge targets range over 0..MaxDmaStates.
MaxDmaStates == 1
\* Most creators registered with new_transition; transition ids range over 0..MaxCreators.
MaxCreators == 1
\* Longest edge list handed to new_state.
MaxStateEdges == 2
\* Most Runs started from one Dma.
MaxRuns == 2
\* Most calls made on one Run.
MaxCalls == 2
\* Longest word handed to Run::matches.
MaxRunWord == 2
\* Node ids of the graphs of epsilon edges range over 0..MaxEpsilonNode.
MaxEpsilonNode == 2
\* Number of edges of the graphs of epsilon edges.
EpsilonEdges == 3
\* Handles inside the operations handed to push and insert range over 0..MaxHandle.
MaxHandle == 2
\* Most calls made on one Regex and its Cached wrappers.
MaxRegexCalls == 4
\* Deterministic graphs of the graph specification: symbols given to new, the
\* length of the list given to new, and the nodes created.
MaxSymbol == 3
MaxSymbols == 3
MaxGraphNodes == 2
\* Builders of the graph specification: the highest node id and the number
\* of insert calls.
MaxBuilderNode == 1
MaxInserts == 4
\* The final states given to the automata that are written as dot files.
MaxDotFinals == 2
\* The new_transition calls on a template with several kinds of transition.
MaxTransitions == 2
\* The length of the strings that an Id is built from.
MaxNameLen == 3

---------------------------------------------------------------------------
(* Values shared by all components. *)

\* The alphabet type A (lib.rs, trait Alphabet): here a type of two symbols.
A == {1, 2}

None == <<>>
Some(x) == <<x>>
IsSome(o) == o # <<>>
Unwrap(o) == o[1]

Null == [tag |-> "null"]
Panic(msg) == [tag |-> "panic", msg |-> msg]
IsPanic(v) == v.tag = "panic"

Min2(a, b) == IF a <= b THEN a ELSE b
Max2(a, b) == IF a >= b THEN a ELSE b

\* The elements of a sequence.
SeqRange(s) == {s[i] : i \in 1..Len(s)}

\* All sequences over S of length at most n.
SeqsUpTo(S, n) == UNION {[1..k -> S] : k \in 0..n}

\* The derived lexicographic order of tuples of integers (#[derive(Ord)]).
TupleLess(x, y) ==
    \E i \in 1..Min2(Len(x), Len(y)) :
        /\ x[i] < y[i]
        /\ \A j \in 1..(i - 1) : x[j] = y[j]

\* slice::sort on a vector of integer tuples (insertion of each element in order).
RECURSIVE SortTuples(_)
SortTuples(s) ==
    IF s = <<>> THEN <<>>
    ELSE LET rest == SortTuples(Tail(s))
             x    == Head(s)
             k    == Cardinality({i \in 1..Len(rest) : TupleLess(rest[i], x)})
         IN  SubSeq(rest, 1, k) \o <<x>> \o SubSeq(rest, k + 1, Len(rest))

\* slice::sort on a vector of symbols.
SortSyms(s) ==
    LET t == SortTuples([i \in 1..Len(s) |-> <<s[i]>>])
    IN  [i \in 1..Len(t) |-> t[i][1]]

\* Vec::dedup: drops every element equal to its predecessor.
RECURSIVE Dedup(_)
Dedup(s) ==
    IF Len(s) <= 1 THEN s
    ELSE LET d == Dedup(SubSeq(s, 1, Len(s) - 1))
         IN  IF s[Len(s)] = d[Len(d)] THEN d ELSE Append(d, s[Len(s)])

\* Some iteration order of a hash set: the elements as a sequence.
RECURSIVE SetToSeq(_)
SetToSeq(S) ==
    IF S = {} THEN <<>>
    ELSE LET x == CHOOSE y \in S : TRUE
         IN  <<x>> \o SetToSeq(S \ {x})

\* Vec::resize(n, x): truncates to n elements, or pads with x up to n.
Resize(v, n, x) ==
    IF n <= Len(v) THEN SubSeq(v, 1, n)
    ELSE v \o [i \in 1..(n - Len(v)) |-> x]

\* Ensure::ensure_with: resize(max(len, n)).
Ensure(v, n, x) == Resize(v, Max2(Len(v), n), x)

\* slice::binary_search on a strictly increasing vector: Ok(index) is Some(index).
BinarySearch(v, x) ==
    IF \E i \in 1..Len(v) : v[i] = x
    THEN Some((CHOOSE i \in 1..Len(v) : v[i] = x) - 1)
    ELSE None

---------------------------------------------------------------------------
(* deterministic.rs: the packed deterministic graph. *)

\* Deterministic::new
\* A new that sorts the symbols but keeps the duplicates.
Deterministic_new_sorted(alphabet) ==
    [alphabet |-> SortSyms(alphabet), edges |-> <<>>, next_id |-> 0]

Deterministic_new(alphabet) ==
    [alphabet |-> Dedup(SortSyms(alphabet)), edges |-> <<>>, next_id |-> 0]

char_count(g) == Len(g.alphabet)

\* Deterministic::node: the graph after the call and the id returned.
Deterministic_node(g) ==
    [graph |-> [g EXCEPT !.edges = g.edges \o [i \in 1..char_count(g) |-> None],
                         !.next_id = g.next_id + 1],
     id    |-> g.next_id]

\* Deterministic::valid_edges_range: Some(<<start, end>>) or None.
valid_edges_range(g, idx) ==
    IF idx >= g.next_id THEN None
    ELSE Some(<<idx * char_count(g), idx * char_count(g) + char_count(g)>>)

\* The slice v[start..end] of Rust.
Slice(v, range) == SubSeq(v, range[1] + 1, range[2])

\* Deterministic::edges: Some(targets of the node, one slot per symbol) or None.
Deterministic_edges(g, idx) ==
    IF valid_edges_range(g, idx) = None THEN None
    ELSE Some(Slice(g.edges, Unwrap(valid_edges_range(g, idx))))

\* Deterministic::iter_edges with EdgesIter::next: the <<symbol, target>> pairs
\* of the present slots, in alphabet order; empty for an invalid node.
iter_edges(g, idx) ==
    LET range   == IF valid_edges_range(g, idx) = None THEN <<0, 0>>
                   ELSE Unwrap(valid_edges_range(g, idx))
        targets == Slice(g.edges, range)
        pairs   == [i \in 1..Len(targets) |-> <<g.alphabet[i], targets[i]>>]
        present == SelectSeq(pairs, LAMBDA p : IsSome(p[2]))
    IN  [i \in 1..Len(present) |-> <<present[i][1], Unwrap(present[i][2])>>]

\* An is_complete that passes every graph, as from_edges would be without its
\* final assertion.
is_complete_unchecked(g) == TRUE

\* Deterministic::is_complete
is_complete(g) == \A i \in 1..Len(g.edges) : IsSome(g.edges[i])

\* Index<A> for Edges: the slot of symbol ch in the node's targets, or Panic.
Edges_index(g, targets, ch) ==
    IF BinarySearch(g.alphabet, ch) = None
    THEN Panic("Mismatch between deterministic alphabet and character")
    ELSE [tag |-> "slot", slot |-> targets[Unwrap(BinarySearch(g.alphabet, ch)) + 1]]

\* IndexMut<A> for EdgesMut through Deterministic::edges_mut(node).unwrap():
\* the graph with slot (node, ch) set to Some(target).
edges_mut_set(g, node, ch, target) ==
    LET range == Unwrap(valid_edges_range(g, node))
        idx   == Unwrap(BinarySearch(g.alphabet, ch))
    IN  [g EXCEPT !.edges[range[1] + idx + 1] = Some(target)]

---------------------------------------------------------------------------
(* dfa.rs: Dfa { graph, finals }. *)

Ok(v) == [tag |-> "ok", val |-> v]

\* Dfa::from_edges, the loop over edge_iter: per source node the (symbol, target)
\* list and the set of symbols (the set `states` is written and never read).
RECURSIVE from_edges_collect(_, _)
from_edges_collect(edges_left, acc) ==
    IF edges_left = <<>> THEN acc
    ELSE LET from  == Head(edges_left)[1]
             a     == Head(edges_left)[2]
             to    == Head(edges_left)[3]
             edges == Ensure(Ensure(acc.edges, from + 1, <<>>), to + 1, <<>>)
             check == Ensure(Ensure(acc.check, from + 1, {}), to + 1, {})
         IN  from_edges_collect(Tail(edges_left),
                 [edges |-> [edges EXCEPT ![from + 1] = Append(@, <<a, to>>)],
                  check |-> [check EXCEPT ![from + 1] = @ \cup {a}]])

\* Dfa::from_edges, the inspect closure run for every final state in order:
\* check.resize(c + 1, HashSet::new()).
RECURSIVE from_edges_inspect(_, _)
from_edges_inspect(finals, check) ==
    IF finals = <<>> THEN check
    ELSE from_edges_inspect(Tail(finals), Resize(check, Head(finals) + 1, {}))

\* Dfa::from_edges, the loop over the per-node edge lists: sort, add the node,
\* zip the node's slots with the sorted list.
RECURSIVE from_edges_fill(_, _)
from_edges_fill(edges, graph) ==
    IF edges = <<>> THEN graph
    ELSE LET edge_list == SortTuples(Head(edges))
             added     == Deterministic_node(graph)
             start     == Unwrap(valid_edges_range(added.graph, added.id))[1]
             zipped    == Min2(char_count(graph), Len(edge_list))
             filled    == [i \in 1..Len(added.graph.edges) |->
                              IF i - start \in 1..zipped
                              THEN Some(edge_list[i - start][2])
                              ELSE added.graph.edges[i]]
         IN  from_edges_fill(Tail(edges), [added.graph EXCEPT !.edges = filled])

\* Dfa::from_edges
Dfa_from_edges(edges_in, finals) ==
    LET acc     == from_edges_collect(edges_in, [edges |-> << <<>> >>, check |-> << {} >>])
        check   == from_edges_inspect(finals, acc.check)
        \* check.pop(): check is never empty here
        sample  == check[Len(check)]
        rest    == SubSeq(check, 1, Len(check) - 1)
        graph   == from_edges_fill(acc.edges, Deterministic_new(SetToSeq(sample)))
    IN  IF \E i \in 1..Len(rest) : rest[i] # sample
        THEN Panic("Different outgoing edges alphabet")
        ELSE IF ~is_complete(graph)
        THEN Panic("assertion failed: graph.is_complete()")
        ELSE [tag |-> "dfa", graph |-> graph,
              finals |-> {finals[i] : i \in 1..Len(finals)}]

\* Dfa::contains, the loop from a given state.
RECURSIVE Dfa_contains_from(_, _, _)
Dfa_contains_from(d, state, sequence) ==
    IF sequence = <<>> THEN Ok(state \in d.finals)
    ELSE LET edges == Deterministic_edges(d.graph, state)
         IN  IF edges = None THEN Panic("called Option::unwrap() on a None value")
             ELSE LET next == Edges_index(d.graph, Unwrap(edges), Head(sequence))
                  IN  IF IsPanic(next) THEN next
                      ELSE IF next.slot = None
                      THEN Panic("called Option::unwrap() on a None value")
                      ELSE Dfa_contains_from(d, Unwrap(next.slot), Tail(sequence))

\* A contains that starts in the last node instead of node 0.
Dfa_contains_from_last(d, sequence) ==
    Dfa_contains_from(d, d.graph.next_id - 1, sequence)

\* Dfa::contains
Dfa_contains(d, sequence) == Dfa_contains_from(d, 0, sequence)

\* Dfa::alphabet
Dfa_alphabet(d) == d.graph.alphabet

\* A zip that walks the left automaton on both sides.
zip_edges_left(left_edges, right_edges) ==
    [i \in 1..Min2(Len(left_edges), Len(right_edges)) |->
        <<left_edges[i][1], left_edges[i][2], left_edges[i][2]>>]

\* Iterator::zip of two iter_edges: <<symbol of the left, left target, right target>>.
zip_edges(left_edges, right_edges) ==
    [i \in 1..Min2(Len(left_edges), Len(right_edges)) |->
        <<left_edges[i][1], left_edges[i][2], right_edges[i][2]>>]

\* Dfa::pair, the for loop over the zipped edges of the pair with id self_id.
RECURSIVE pair_edges(_, _, _)
pair_edges(zipped, self_id, st) ==
    IF zipped = <<>> THEN st
    ELSE LET symbol   == Head(zipped)[1]
             key      == <<Head(zipped)[2], Head(zipped)[3]>>
             occupied == key \in DOMAIN st.assigned
             added    == Deterministic_node(st.graph)
             node_id  == IF occupied THEN st.assigned[key] ELSE added.id
             st1      == IF occupied THEN st
                         ELSE [st EXCEPT !.graph = added.graph,
                                         !.working = Append(@, <<key[1], key[2], added.id>>),
                                         !.assigned = (key :> added.id) @@ @]
         IN  pair_edges(Tail(zipped), self_id,
                 [st1 EXCEPT !.graph = edges_mut_set(st1.graph, self_id, symbol, node_id)])

\* Dfa::pair, the worklist loop.
RECURSIVE pair_loop(_, _, _, _)
pair_loop(self, other, decider, st) ==
    IF st.working = <<>> THEN st
    ELSE LET top     == st.working[Len(st.working)]
             left    == top[1]
             right   == top[2]
             self_id == top[3]
             decide  == decider[<<left \in self.finals, right \in other.finals>>]
             st1     == [st EXCEPT !.working = SubSeq(@, 1, Len(@) - 1),
                                   !.finals = IF decide THEN @ \cup {self_id} ELSE @]
         IN  pair_loop(self, other, decider,
                 pair_edges(zip_edges(iter_edges(self.graph, left),
                                      iter_edges(other.graph, right)), self_id, st1))

\* Dfa::pair: Ok(None), Ok(Some(Dfa)) or Panic.
Dfa_pair(self, other, decider) ==
    IF Dfa_alphabet(self) # Dfa_alphabet(other) THEN Panic("Automata alphabets differ")
    ELSE LET first == Deterministic_node(Deterministic_new(Dfa_alphabet(self)))
             st    == pair_loop(self, other, decider,
                          [assigned |-> (<<0, 0>> :> 0),
                           working  |-> << <<0, 0, 0>> >>,
                           graph    |-> first.graph,
                           finals   |-> {}])
         IN  IF st.finals = {} THEN Ok(None)
             ELSE Ok(Some([tag |-> "dfa", graph |-> st.graph, finals |-> st.finals]))

\* Dfa::pair_empty, the for loop over the zipped edges.
RECURSIVE pair_empty_edges(_, _)
pair_empty_edges(zipped, st) ==
    IF zipped = <<>> THEN st
    ELSE LET key == <<Head(zipped)[2], Head(zipped)[3]>>
         IN  pair_empty_edges(Tail(zipped),
                 IF key \in st.assigned THEN st
                 ELSE [assigned |-> st.assigned \cup {key}, working |-> Append(st.working, key)])

\* A pair_empty loop that decides on the pair (0, 0) alone.
pair_empty_first(self, other, decider, st) ==
    ~decider[<<0 \in self.finals, 0 \in other.finals>>]

\* Dfa::pair_empty, the worklist loop: the value returned.
RECURSIVE pair_empty_loop(_, _, _, _)
pair_empty_loop(self, other, decider, st) ==
    IF st.working = <<>> THEN TRUE
    ELSE LET left  == st.working[Len(st.working)][1]
             right == st.working[Len(st.working)][2]
         IN  IF decider[<<left \in self.finals, right \in other.finals>>] THEN FALSE
             ELSE pair_empty_loop(self, other, decider,
                      pair_empty_edges(zip_edges(iter_edges(self.graph, left),
                                                 iter_edges(other.graph, right)),
                                       [st EXCEPT !.working = SubSeq(@, 1, Len(@) - 1)]))

\* Dfa::pair_empty: Ok(bool) or Panic.
Dfa_pair_empty(self, other, decider) ==
    IF Dfa_alphabet(self) # Dfa_alphabet(other) THEN Panic("Automata alphabets differ")
    ELSE Ok(pair_empty_loop(self, other, decider,
                [assigned |-> {<<0, 0>>}, working |-> << <<0, 0>> >>]))

---------------------------------------------------------------------------
(* nondeterministic.rs: Builder and the finished NonDeterministic graph.   *)
(* A Character is its index into `characters`; a Label is 0 for EPSILON    *)
(* and index + 1 for Label::character(index), the order of the derived Ord *)
(* (None below every Some).  An Edge is the tuple <<label, target>>.       *)

LabelEPSILON == 0
Label_character(index) == index + 1

\* Builder::default
Builder_default == [characters |-> <<>>, ordered |-> <<>>, edges |-> <<>>, epsilons |-> <<>>]

\* Builder::resolve_char: binary_search_by_key over `ordered`; [ok, val] is
\* Ok(character) or Err(insertion index).
resolve_char(b, character) ==
    LET keys == [i \in 1..Len(b.ordered) |-> b.characters[b.ordered[i] + 1]]
    IN  IF \E i \in 1..Len(keys) : keys[i] = character
        THEN [ok |-> TRUE, val |-> b.ordered[CHOOSE i \in 1..Len(keys) : keys[i] = character]]
        ELSE [ok |-> FALSE, val |-> Cardinality({i \in 1..Len(keys) : keys[i] < character})]

\* Vec::insert(index, x)
VecInsert(v, index, x) == SubSeq(v, 1, index) \o <<x>> \o SubSeq(v, index + 1, Len(v))

\* Builder::ensure_char: the builder after the call and the Character returned.
ensure_char(b, character) ==
    LET resolve == resolve_char(b, character)
    IN  IF resolve.ok THEN [builder |-> b, character |-> resolve.val]
        ELSE [builder |-> [b EXCEPT !.characters = Append(@, character),
                                    !.ordered = VecInsert(@, resolve.val, Len(b.characters))],
              character |-> Len(b.characters)]

\* Builder::ensure_nodes
ensure_nodes(b, node) ==
    [b EXCEPT !.edges = Ensure(@, node + 1, <<>>), !.epsilons = Ensure(@, node + 1, <<>>)]

\* Builder::insert; `character` is an Option<A>.
Builder_insert(b, from, character, to) ==
    LET b1 == ensure_nodes(ensure_nodes(b, from), to)
    IN  IF IsSome(character)
        THEN LET ec == ensure_char(b1, Unwrap(character))
             IN  [ec.builder EXCEPT !.edges[from + 1] = Append(@, <<ec.character, to>>)]
        ELSE [b1 EXCEPT !.epsilons[from + 1] = Append(@, to)]

\* Builder::finish, the loop over the nodes: appends the node's slice to the
\* flat edge array and its range to `ranges`.
RECURSIVE finish_nodes(_, _, _)
finish_nodes(b, node, acc) ==
    IF node > Min2(Len(b.edges), Len(b.epsilons)) THEN acc
    ELSE LET character_label(c) ==
                 Label_character((CHOOSE i \in 1..Len(b.ordered) : b.ordered[i] = c) - 1)
             node_epsilons == b.epsilons[node]
             node_edges    == b.edges[node]
             start == Len(acc.edges)
             end   == start + Len(node_epsilons) + Len(node_edges)
             slice == [i \in 1..Len(node_epsilons) |-> <<LabelEPSILON, node_epsilons[i]>>]
                      \o [i \in 1..Len(node_edges) |->
                             <<character_label(node_edges[i][1]), node_edges[i][2]>>]
         IN  finish_nodes(b, node + 1,
                 [edges  |-> acc.edges \o SortTuples(slice),
                  ranges |-> Append(acc.ranges, <<start, end>>)])

\* A finish that hands the characters over in their order of insertion.
Builder_finish_unsorted(b) ==
    LET flat == finish_nodes(b, 1, [edges |-> <<>>, ranges |-> <<>>])
    IN  [characters |-> b.characters, edges |-> flat.edges, ranges |-> flat.ranges]

\* Builder::finish
Builder_finish(b) ==
    LET flat == finish_nodes(b, 1, [edges |-> <<>>, ranges |-> <<>>])
    IN  [characters |-> SortSyms(b.characters), edges |-> flat.edges, ranges |-> flat.ranges]

\* NonDeterministic::edges: Some(the node's slice of edges) or None.
NonDeterministic_edges(g, node) ==
    IF node >= Len(g.ranges) THEN None
    ELSE Some(Slice(g.edges, g.ranges[node + 1]))

\* NonDeterministic::alphabet
NonDeterministic_alphabet(g) == g.characters

\* NonDeterministic::label; `ch` is an Option<A>, the result an Option<Label>.
NonDeterministic_label(g, ch) ==
    IF ch = None THEN Some(LabelEPSILON)
    ELSE IF BinarySearch(g.characters, Unwrap(ch)) = None THEN None
    ELSE Some(Label_character(Unwrap(BinarySearch(g.characters, Unwrap(ch)))))

\* NonDeterministic::unlabel: the Option<A> of a label.
unlabel(g, label) ==
    IF label = LabelEPSILON THEN None ELSE Some(g.characters[label])

\* Iterator::position(..).unwrap_or_else(len): the 0-based index of the first of
\* the matching positions (1-based), the slice's length when none matches.
PositionOrLen(matching, len) ==
    IF matching = {} THEN len
    ELSE (CHOOSE i \in matching : \A j \in matching : i <= j) - 1

\* A restrict_to that narrows the slice at its begin only.
restrict_to_open_end(g, edges, character) ==
    IF NonDeterministic_label(g, character) = None THEN <<>>
    ELSE LET label == Unwrap(NonDeterministic_label(g, character))
             begin == PositionOrLen({i \in 1..Len(edges) : edges[i][1] >= label}, Len(edges))
         IN  Slice(edges, <<begin, Len(edges)>>)

\* Edges::restrict_to: the narrowed slice.
restrict_to(g, edges, character) ==
    IF NonDeterministic_label(g, character) = None THEN <<>>
    ELSE LET label == Unwrap(NonDeterministic_label(g, character))
             begin == PositionOrLen({i \in 1..Len(edges) : edges[i][1] >= label}, Len(edges))
             end   == PositionOrLen({i \in 1..Len(edges) : edges[i][1] > label}, Len(edges))
         IN  Slice(edges, <<begin, end>>)

\* Edges::targets
targets(edges) == [i \in 1..Len(edges) |-> edges[i][2]]

\* Nodes::todo, which is Nodes::len and Nodes::count.
Nodes_todo(g, node_id) == Len(g.edges) - node_id

\* NonDeterministic::from_deterministic, the loop over the nodes.
RECURSIVE from_deterministic_nodes(_, _, _)
from_deterministic_nodes(det, node, acc) ==
    IF node >= det.next_id THEN acc
    ELSE LET outgoing == Unwrap(Deterministic_edges(det, node))
             ids      == SelectSeq([i \in 1..Len(outgoing) |-> i - 1],
                                   LAMBDA id : IsSome(outgoing[id + 1]))
             outedges == [i \in 1..Len(ids) |->
                             <<Label_character(ids[i]), Unwrap(outgoing[ids[i] + 1])>>]
             begin    == Len(acc.edges)
             end      == begin + Len(outedges)
         IN  from_deterministic_nodes(det, node + 1,
                 [edges  |-> acc.edges \o outedges,
                  ranges |-> Append(acc.ranges, <<begin, end>>)])

\* NonDeterministic::from_deterministic
from_deterministic(det) ==
    LET flat == from_deterministic_nodes(det, 0, [edges |-> <<>>, ranges |-> <<>>])
    IN  [characters |-> det.alphabet, edges |-> flat.edges, ranges |-> flat.ranges]

---------------------------------------------------------------------------
(* nfa.rs: Nfa { graph, finals }. *)

\* Nfa::from_edges, the for_each over edge_iter: builder.insert(from, label, to).
RECURSIVE Nfa_from_edges_insert(_, _)
Nfa_from_edges_insert(edges_left, builder) ==
    IF edges_left = <<>> THEN builder
    ELSE Nfa_from_edges_insert(Tail(edges_left),
             Builder_insert(builder, Head(edges_left)[1], Head(edges_left)[2],
                            Head(edges_left)[3]))

\* Nfa::from_edges
Nfa_from_edges(edges_in, finals) ==
    [tag    |-> "nfa",
     graph  |-> Builder_finish(Nfa_from_edges_insert(edges_in, Builder_default)),
     finals |-> {finals[i] : i \in 1..Len(finals)}]

\* Nfa::epsilon_reach, the filter/for_each over the epsilon edges of one node:
\* every target that insert_new accepts is pushed on todo.
RECURSIVE epsilon_reach_push(_, _, _)
epsilon_reach_push(edges, reached, todo) ==
    IF edges = <<>> THEN [reached |-> reached, todo |-> todo]
    ELSE LET target == Head(edges)[2]
         IN  IF target \in reached
             THEN epsilon_reach_push(Tail(edges), reached, todo)
             ELSE epsilon_reach_push(Tail(edges), reached \cup {target}, Append(todo, target))

\* Nfa::epsilon_reach, the worklist loop.
RECURSIVE epsilon_reach_loop(_, _, _)
epsilon_reach_loop(n, reached, todo) ==
    IF todo = <<>> THEN Ok(reached)
    ELSE LET next  == todo[Len(todo)]
             edges == NonDeterministic_edges(n.graph, next)
         IN  IF edges = None THEN Panic("called Option::unwrap() on a None value")
             ELSE LET pushed == epsilon_reach_push(restrict_to(n.graph, Unwrap(edges), None),
                                                   reached, SubSeq(todo, 1, Len(todo) - 1))
                  IN  epsilon_reach_loop(n, pushed.reached, pushed.todo)

\* Nfa::epsilon_reach: Ok(set of nodes) or Panic.
epsilon_reach(n, start) == epsilon_reach_loop(n, {start}, <<start>>)

\* The flat_map of contains and into_dfa: the targets of the edges labelled ch
\* of every node of `states`, or Panic when edges(idx) is None.
step_targets(n, states, ch) ==
    IF \E idx \in states : NonDeterministic_edges(n.graph, idx) = None
    THEN Panic("called Option::unwrap() on a None value")
    ELSE Ok(UNION {SeqRange(targets(restrict_to(n.graph,
                       Unwrap(NonDeterministic_edges(n.graph, idx)), Some(ch)))) :
                   idx \in states})

\* The map/fold of contains and into_dfa: the union of the epsilon_reach of
\* every node of `basic`, or Panic.
closure_of(n, basic) ==
    IF \E state \in basic : IsPanic(epsilon_reach(n, state))
    THEN Panic("called Option::unwrap() on a None value")
    ELSE Ok(UNION {epsilon_reach(n, state).val : state \in basic})

\* Nfa::contains, the loop over the sequence from a set of states.
RECURSIVE Nfa_contains_from(_, _, _)
Nfa_contains_from(n, states, sequence) ==
    IF sequence = <<>> THEN Ok(states \cap n.finals # {})
    ELSE LET next == step_targets(n, states, Head(sequence))
         IN  IF IsPanic(next) THEN next
             ELSE LET epsilon_reached == closure_of(n, next.val)
                  IN  IF IsPanic(epsilon_reached) THEN epsilon_reached
                      ELSE Nfa_contains_from(n, epsilon_reached.val, Tail(sequence))

\* Nfa::contains
Nfa_contains(n, sequence) ==
    IF IsPanic(epsilon_reach(n, 0)) THEN epsilon_reach(n, 0)
    ELSE Nfa_contains_from(n, epsilon_reach(n, 0).val, sequence)

\* A to_nfa that loses the final states.
Dfa_to_nfa_no_finals(d) ==
    [tag |-> "nfa", graph |-> from_deterministic(d.graph), finals |-> {}]

\* Dfa::to_nfa with Nfa::from_nondeterministic
Dfa_to_nfa(d) ==
    [tag |-> "nfa", graph |-> from_deterministic(d.graph), finals |-> d.finals]

\* The position of subset s in state_map: state_map[&s] as Some(id), or None.
state_map_get(state_map, s) ==
    IF \E i \in 1..Len(state_map) : state_map[i] = s
    THEN Some((CHOOSE i \in 1..Len(state_map) : state_map[i] = s) - 1)
    ELSE None

\* Nfa::into_dfa, the loop over the alphabet for the subset `next` with id `from`.
\* st.state_map lists the subsets in the order of their ids.
RECURSIVE into_dfa_chars(_, _, _, _, _)
into_dfa_chars(n, next, from, chars_left, st) ==
    IF chars_left = <<>> THEN st
    ELSE LET ch        == Head(chars_left)
             basic     == step_targets(n, next, ch).val
             closure   == closure_of(n, basic).val
             is_final  == closure \cap n.finals # {}
             new_index == Len(st.state_map)
             known     == state_map_get(st.state_map, closure)
             nr        == IF IsSome(known) THEN Unwrap(known) ELSE new_index
             st1       == IF IsSome(known) THEN st
                          ELSE [st EXCEPT !.state_map = Append(@, closure),
                                          !.pending = Append(@, closure)]
             st2       == IF is_final THEN [st1 EXCEPT !.finals = Append(@, nr)] ELSE st1
         IN  into_dfa_chars(n, next, from, Tail(chars_left),
                 [st2 EXCEPT !.edges = Append(@, <<from, ch, nr>>)])

\* Nfa::into_dfa, the worklist loop.
RECURSIVE into_dfa_loop(_, _, _)
into_dfa_loop(n, alphabet, st) ==
    IF st.pending = <<>> THEN st
    ELSE LET next == st.pending[Len(st.pending)]
             from == Unwrap(state_map_get(st.state_map, next))
         IN  into_dfa_loop(n, alphabet,
                 into_dfa_chars(n, next, from, alphabet,
                     [st EXCEPT !.pending = SubSeq(@, 1, Len(@) - 1),
                                !.popped = Append(@, next)]))

\* Nfa::into_dfa up to the call of Dfa::from_edges: state_map, edges and
\* finals after the worklist loop, with the subsets that pending.pop() gave in
\* the order it gave them, or Panic.
into_dfa_explored(n, alphabet_extension) ==
    IF IsPanic(epsilon_reach(n, 0)) THEN epsilon_reach(n, 0)
    ELSE LET initial_state == epsilon_reach(n, 0).val
             alphabet      == NonDeterministic_alphabet(n.graph) \o alphabet_extension
         IN  into_dfa_loop(n, alphabet,
                 [tag       |-> "explored",
                  state_map |-> <<initial_state>>,
                  pending   |-> <<initial_state>>,
                  popped    |-> <<>>,
                  edges     |-> <<>>,
                  finals    |-> <<>>])

\* Nfa::into_dfa: the Dfa, or Panic.
Nfa_into_dfa(n, alphabet_extension) ==
    LET st == into_dfa_explored(n, alphabet_extension)
    IN  IF IsPanic(st) THEN st ELSE Dfa_from_edges(st.edges, st.finals)

---------------------------------------------------------------------------
(* regex.rs: the regex DAG and its Cached wrapper.  A Handle is its index; *)
(* an Op is a tuple headed by its variant's name.                          *)

OpEpsilon == <<"Epsilon">>
OpMatch(a) == <<"Match", a>>
OpStar(h) == <<"Star", h>>
OpOr(h1, h2) == <<"Or", h1, h2>>
OpConcat(h1, h2) == <<"Concat", h1, h2>>

\* Regex::new
Regex_new == [subs |-> <<>>]

\* The handles an operation names.
OpHandles(op) ==
    IF op[1] = "Star" THEN {op[2]}
    ELSE IF op[1] \in {"Or", "Concat"} THEN {op[2], op[3]}
    ELSE {}

\* A push without the assert! on the handles of the operation.
Regex_push_unchecked(r, op) ==
    [tag |-> "ok", regex |-> [r EXCEPT !.subs = Append(@, op)], handle |-> Len(r.subs)]

\* Regex::push: [tag "ok", regex, handle], or Panic when an assert! fails.
Regex_push(r, op) ==
    IF \E i \in OpHandles(op) : ~(i < Len(r.subs))
    THEN Panic("assertion failed: i < self.subs.len()")
    ELSE [tag |-> "ok", regex |-> [r EXCEPT !.subs = Append(@, op)], handle |-> Len(r.subs)]

\* Regex::root: an Option<Handle>.
Regex_root(r) == IF Len(r.subs) = 0 THEN None ELSE Some(Len(r.subs) - 1)

\* Regex::cached; the cache is a function from Op to Handle.
Regex_cached(r) == [regex |-> r, cache |-> <<>>]

\* An insert that pushes the operation whether or not the cache knows it.
Cached_insert_push(c, op) ==
    LET pushed == Regex_push(c.regex, op)
    IN  IF IsPanic(pushed) THEN pushed
        ELSE [tag |-> "ok",
              cached |-> [regex |-> pushed.regex,
                          cache |-> (op :> pushed.handle) @@ c.cache],
              handle |-> pushed.handle]

\* Cached::insert: [tag "ok", cached, handle], or Panic.
Cached_insert(c, op) ==
    IF op \in DOMAIN c.cache
    THEN [tag |-> "ok", cached |-> c, handle |-> c.cache[op]]
    ELSE LET pushed == Regex_push(c.regex, op)
         IN  IF IsPanic(pushed) THEN pushed
             ELSE [tag |-> "ok",
                   cached |-> [regex |-> pushed.regex,
                               cache |-> (op :> pushed.handle) @@ c.cache],
                   handle |-> pushed.handle]

\* Cached::into_inner
Cached_into_inner(c) == c.regex

---------------------------------------------------------------------------
(* nfa.rs: Nfa::to_regex, state elimination over a MultiMap from           *)
(* (EphermalSymbol, EphermalSymbol) to a vector of handles.                *)

Start == <<"Start">>
End == <<"End">>
Real(n) == <<"Real", n>>

\* MultiMap::insert
MultiMap_insert(m, key, value) ==
    IF key \in DOMAIN m THEN [m EXCEPT ![key] = Append(@, value)]
    ELSE (key :> <<value>>) @@ m

\* HashMap::remove_entry: the map without the key.
MultiMap_remove(m, key) == [k \in DOMAIN m \ {key} |-> m[k]]

\* Nfa::get_single applied to the entries removed for `keys`, in that order:
\* the <<key, handle>> pairs of the keys that are present (val.pop() is the last).
RECURSIVE get_singles(_, _)
get_singles(m, keys) ==
    IF keys = <<>> THEN <<>>
    ELSE IF Head(keys) \in DOMAIN m /\ m[Head(keys)] # <<>>
    THEN << <<Head(keys), m[Head(keys)][Len(m[Head(keys)])]>> >> \o get_singles(m, Tail(keys))
    ELSE get_singles(m, Tail(keys))

\* to_regex, the loops that fill the multimap from the graph: the edges of
\* node `real` from position i on, then the next nodes (NonDeterministic::nodes).
RECURSIVE to_regex_edges(_, _, _, _)
to_regex_edges(g, real, i, st) ==
    IF NonDeterministic_edges(g, real) = None THEN st
    ELSE LET node_edges == Unwrap(NonDeterministic_edges(g, real))
         IN  IF i > Len(node_edges) THEN to_regex_edges(g, real + 1, 1, st)
             ELSE LET symbol == unlabel(g, node_edges[i][1])
                      target == node_edges[i][2]
                      ins    == IF IsSome(symbol)
                                THEN Cached_insert(st.cached, OpMatch(Unwrap(symbol)))
                                ELSE [cached |-> st.cached, handle |-> st.eps]
                  IN  to_regex_edges(g, real, i + 1,
                          [st EXCEPT !.cached = ins.cached,
                                     !.edges = MultiMap_insert(@, <<Real(real), Real(target)>>,
                                                               ins.handle)])

\* A merge that keeps the last alternative of a key and forgets the others.
merge_fold_last(cached, alt1, alternatives) ==
    [cached |-> cached, handle |-> alt1]

\* to_regex, merge phase, the fold over the other alternatives of one key.
RECURSIVE merge_fold(_, _, _)
merge_fold(cached, alt1, alternatives) ==
    IF alternatives = <<>> THEN [cached |-> cached, handle |-> alt1]
    ELSE LET ins == Cached_insert(cached, OpOr(alt1, Head(alternatives)))
         IN  merge_fold(ins.cached, ins.handle, Tail(alternatives))

\* to_regex, merge phase: values_mut().for_each over the keys in the map's order.
RECURSIVE merge_phase(_, _)
merge_phase(keys, st) ==
    IF keys = <<>> THEN st
    ELSE LET alternatives == st.edges[Head(keys)]
         IN  IF alternatives = <<>> THEN merge_phase(Tail(keys), st)
             ELSE LET alt == merge_fold(st.cached, alternatives[Len(alternatives)],
                                        SubSeq(alternatives, 1, Len(alternatives) - 1))
                  IN  merge_phase(Tail(keys),
                          [st EXCEPT !.cached = alt.cached,
                                     !.edges[Head(keys)] = <<alt.handle>>])

\* to_regex, step 2.4: the loop over `from` for one entry of `to`.
RECURSIVE insert_paths_from(_, _, _, _)
insert_paths_from(to_entry, from, self_star, st) ==
    IF from = <<>> THEN st
    ELSE LET from_node   == to_entry[1][1]
             from_handle == to_entry[2]
             to_node     == Head(from)[1][2]
             to_handle   == Head(from)[2]
             first_half  == Cached_insert(st.cached, OpConcat(from_handle, Unwrap(self_star)))
             path        == IF IsSome(self_star)
                            THEN Cached_insert(first_half.cached,
                                               OpConcat(first_half.handle, to_handle))
                            ELSE Cached_insert(st.cached, OpConcat(from_handle, to_handle))
         IN  insert_paths_from(to_entry, Tail(from), self_star,
                 [st EXCEPT !.cached = path.cached,
                            !.edges = MultiMap_insert(@, <<from_node, to_node>>, path.handle)])

\* to_regex, step 2.4: the loop over `to`.
RECURSIVE insert_paths(_, _, _, _)
insert_paths(to, from, self_star, st) ==
    IF to = <<>> THEN st
    ELSE insert_paths(Tail(to), from, self_star,
             insert_paths_from(Head(to), from, self_star, st))

\* The keys of the map in its iteration order: a HashMap gives no order, the
\* model takes one fixed order or its reverse.
KeysInOrder(m, reversed) ==
    LET keys == SetToSeq(DOMAIN m)
    IN  IF reversed THEN [i \in 1..Len(keys) |-> keys[Len(keys) + 1 - i]] ELSE keys

\* A fold of remove_entry over a set of keys.
RemoveAll(m, keys) == [k \in DOMAIN m \ keys |-> m[k]]

\* to_regex, one round of the elimination loop for real_to_delete.
eliminate(real_to_delete, st, reversed) ==
    LET merged    == merge_phase(KeysInOrder(st.edges, reversed), st)
        lower     == [i \in 1..real_to_delete |-> i - 1]
        to_keys   == [i \in 1..real_to_delete |-> <<Real(lower[i]), Real(real_to_delete)>>]
                     \o << <<Start, Real(real_to_delete)>> >>
        to        == get_singles(merged.edges, to_keys)
        edges1    == RemoveAll(merged.edges, SeqRange(to_keys))
        from_keys == [i \in 1..real_to_delete |-> <<Real(real_to_delete), Real(lower[i])>>]
                     \o << <<Real(real_to_delete), End>> >>
        from      == get_singles(edges1, from_keys)
        edges2    == RemoveAll(edges1, SeqRange(from_keys))
        loop_key  == <<Real(real_to_delete), Real(real_to_delete)>>
        self_loop == get_singles(edges2, <<loop_key>>)
        edges3    == RemoveAll(edges2, {loop_key})
        star      == Cached_insert(merged.cached, OpStar(self_loop[1][2]))
        self_star == IF self_loop = <<>> THEN None ELSE Some(star.handle)
        cached1   == IF self_loop = <<>> THEN merged.cached ELSE star.cached
    IN  insert_paths(to, from, self_star,
            [merged EXCEPT !.cached = cached1, !.edges = edges3])

\* to_regex, the elimination loop: (0..count).rev().for_each(...).
RECURSIVE to_regex_loop(_, _, _)
to_regex_loop(count, st, reversed) ==
    IF count = 0 THEN st
    ELSE to_regex_loop(count - 1, eliminate(count - 1, st, reversed), reversed)

\* to_regex, (0..self.graph.nodes().len()).rev(): the indices the elimination
\* loop is run for, in its order.
to_regex_visited(n) ==
    [i \in 1..Nodes_todo(n.graph, 0) |-> Nodes_todo(n.graph, 0) - i]

\* to_regex up to the end of the elimination loop: the regex cache and the
\* edge multimap it leaves.
to_regex_eliminated(n, reversed) ==
    LET eps     == Cached_insert(Regex_cached(Regex_new), OpEpsilon)
        edges0  == [k \in {<<Start, Real(0)>>} \cup {<<Real(f), End>> : f \in n.finals} |->
                       <<eps.handle>>]
        filled  == to_regex_edges(n.graph, 0, 1,
                       [cached |-> eps.cached, edges |-> edges0, eps |-> eps.handle])
    IN  to_regex_loop(Nodes_todo(n.graph, 0), filled, reversed)

\* Nfa::to_regex: [tag "ok", regex], or Panic.  `reversed` picks the iteration
\* order of the multimap.
Nfa_to_regex(n, reversed) ==
    LET st      == to_regex_eliminated(n, reversed)
        regex   == Cached_into_inner(st.cached)
    IN  IF <<Start, End>> \notin DOMAIN st.edges
        THEN Panic("Ephermal start to end node should be the only left")
        ELSE IF st.edges[<<Start, End>>] = <<>>
        THEN Panic("Start to end path must exist")
        ELSE IF DOMAIN st.edges # {<<Start, End>>}
        THEN Panic("assertion failed: edges.inner.is_empty()")
        ELSE IF Some(st.edges[<<Start, End>>][Len(st.edges[<<Start, End>>])]) # Regex_root(regex)
        THEN Panic("Start to end must be the regex root")
        ELSE [tag |-> "ok", regex |-> regex]

---------------------------------------------------------------------------
(* dma.rs: the self-modifying automaton Dma and its Run.                   *)
(* A Dma is a record [tag "dma", alphabet, lut, next_state, final_states,  *)
(* edges, transitions, creator]; an Edge is [target, transition]; State,   *)
(* Creator and Transition are their usize.  Dma values live in a store, a  *)
(* sequence, and a Run is [backing, state] with `backing` the place of its *)
(* Dma in the store.  A Result is Ok(v) or Err(e).                         *)

Err(e) == [tag |-> "err", err |-> e]
Unit == <<>>

\* enum TransitionKind
Standard == <<"Standard">>
Creating(creator) == <<"Creating", creator>>

\* enum EdgeTarget and struct NewEdge
SelfCycle == <<"SelfCycle">>
Target(a) == <<"Target", a>>
NewEdge(target, kind) == [target |-> target, kind |-> kind]

\* Dma::new; collecting (c, idx) into the HashMap keeps the last idx of a symbol.
Dma_new(alphabet) ==
    [tag          |-> "dma",
     alphabet     |-> alphabet,
     lut          |-> [c \in SeqRange(alphabet) |->
                          (CHOOSE idx \in 1..Len(alphabet) :
                              /\ alphabet[idx] = c
                              /\ \A later \in (idx + 1)..Len(alphabet) : alphabet[later] # c) - 1],
     next_state   |-> 0,
     final_states |-> {},
     edges        |-> <<>>,
     transitions  |-> <<Standard>>,
     creator      |-> <<>>]

\* A run that clones the Dma stored last, not the Dma of `self`.
Dma_run_last(store, self) ==
    IF ~(store[self].next_state > 0) THEN Panic("Can not run an empty automaton")
    ELSE [tag |-> "ok", store |-> Append(store, store[Len(store)]),
          run |-> [backing |-> Len(store) + 1, state |-> 0]]

\* A run that borrows the Dma of `self` instead of cloning it.
Dma_run_shared(store, self) ==
    IF ~(store[self].next_state > 0) THEN Panic("Can not run an empty automaton")
    ELSE [tag |-> "ok", store |-> store, run |-> [backing |-> self, state |-> 0]]

\* Dma::run on the Dma at place `self`: self.clone() is a new place of the store.
Dma_run(store, self) ==
    IF ~(store[self].next_state > 0) THEN Panic("Can not run an empty automaton")
    ELSE [tag |-> "ok", store |-> Append(store, store[self]),
          run |-> [backing |-> Len(store) + 1, state |-> 0]]

\* Dma::new_creator_impl
new_creator_impl(d, creator) ==
    [dma |-> [d EXCEPT !.creator = Append(@, creator)], new_id |-> Len(d.creator)]

\* A new_transition_impl that names the creator after the one it was given.
new_transition_impl_next(d, tr) ==
    [dma |-> [d EXCEPT !.transitions = Append(@, Creating(tr + 1))], new_id |-> Len(d.transitions)]

\* Dma::new_transition_impl
new_transition_impl(d, tr) ==
    [dma |-> [d EXCEPT !.transitions = Append(@, Creating(tr))], new_id |-> Len(d.transitions)]

\* Dma::new_transition
new_transition(d, creator) ==
    LET created == new_creator_impl(d, creator)
    IN  new_transition_impl(created.dma, created.new_id)

\* Dma::standard_transition
standard_transition(d) == 0

\* An add_state that never enters the new state into final_states.
add_state_unmarked(d, is_final, edges) ==
    [dma       |-> [d EXCEPT !.edges = @ \o edges, !.next_state = @ + 1],
     new_state |-> d.next_state]

\* Dma::add_state
add_state(d, is_final, edges) ==
    [dma       |-> [d EXCEPT !.edges = @ \o edges,
                             !.next_state = @ + 1,
                             !.final_states = IF is_final THEN @ \cup {d.next_state} ELSE @],
     new_state |-> d.next_state]

\* Dma::new_state; edges is a sequence of <<State, Transition>>.
Dma_new_state(d, is_final, edges) ==
    IF ~(Len(edges) = Len(edges)) THEN Panic("assertion failed: edges.len() == edges.len()")
    ELSE LET added == add_state(d, is_final,
                          [i \in 1..Len(edges) |-> [target |-> edges[i][1], transition |-> edges[i][2]]])
         IN  [tag |-> "ok", dma |-> added.dma, val |-> added.new_state]

\* Dma::index
Dma_index(d, character) ==
    IF character \in DOMAIN d.lut THEN Ok(d.lut[character]) ELSE Err("InvalidChar")

\* Dma::edge
Dma_edge(d, state, character) ==
    LET index == Len(d.alphabet) * state + character
    IN  IF index < Len(d.edges) THEN Ok(d.edges[index + 1])
        ELSE Panic("called Option::unwrap() on a None value")

\* Dma::transition
Dma_transition(d, transition) ==
    IF transition < Len(d.transitions) THEN Some(d.transitions[transition + 1]) ELSE None

\* Dma::creator
Dma_creator(d, index) ==
    IF index < Len(d.creator) THEN Some(d.creator[index + 1]) ELSE None

\* A loop of derive_state that takes the kind of every new edge from the
\* blueprint or the creator's own transition, whatever kind the creator names.
RECURSIVE derive_state_edges_default_kind(_, _, _, _, _)
derive_state_edges_default_kind(d, creator, tr_start, i, new_edges) ==
    IF i > Len(d.alphabet) THEN Ok(new_edges)
    ELSE LET new      == creator.fn.edge[d.alphabet[i]]
             index    == Dma_index(d, new.target[2])
             edge     == d.edges[tr_start + index.val + 1]
             target   == IF new.target = SelfCycle THEN d.next_state ELSE edge.target
             alt_kind == IF new.target = SelfCycle THEN creator.own_kind ELSE edge.transition
         IN  IF new.target # SelfCycle /\ index.tag = "err" THEN index
             ELSE IF new.target # SelfCycle /\ ~(index.val < Len(d.alphabet))
             THEN Panic("assertion failed: index < tr_count")
             ELSE derive_state_edges_default_kind(d, creator, tr_start, i + 1,
                      Append(new_edges, [target |-> target, transition |-> alt_kind]))

\* A loop of derive_state that resolves SelfCycle to the id after the new
\* state's own id.
RECURSIVE derive_state_edges_beyond(_, _, _, _, _)
derive_state_edges_beyond(d, creator, tr_start, i, new_edges) ==
    IF i > Len(d.alphabet) THEN Ok(new_edges)
    ELSE LET new      == creator.fn.edge[d.alphabet[i]]
             index    == Dma_index(d, new.target[2])
             edge     == d.edges[tr_start + index.val + 1]
             target   == IF new.target = SelfCycle THEN d.next_state + 1 ELSE edge.target
             alt_kind == IF new.target = SelfCycle THEN creator.own_kind ELSE edge.transition
             kind     == IF IsSome(new.kind) THEN Unwrap(new.kind) ELSE alt_kind
         IN  IF new.target # SelfCycle /\ index.tag = "err" THEN index
             ELSE IF new.target # SelfCycle /\ ~(index.val < Len(d.alphabet))
             THEN Panic("assertion failed: index < tr_count")
             ELSE derive_state_edges_beyond(d, creator, tr_start, i + 1,
                      Append(new_edges, [target |-> target, transition |-> kind]))

\* Dma::derive_state, the loop over the alphabet from position i on: Ok(new_edges),
\* or the Err of self.index.
RECURSIVE derive_state_edges(_, _, _, _, _)
derive_state_edges(d, creator, tr_start, i, new_edges) ==
    IF i > Len(d.alphabet) THEN Ok(new_edges)
    ELSE LET new      == creator.fn.edge[d.alphabet[i]]
             index    == Dma_index(d, new.target[2])
             edge     == d.edges[tr_start + index.val + 1]
             target   == IF new.target = SelfCycle THEN d.next_state ELSE edge.target
             alt_kind == IF new.target = SelfCycle THEN creator.own_kind ELSE edge.transition
             kind     == IF IsSome(new.kind) THEN Unwrap(new.kind) ELSE alt_kind
         IN  IF new.target # SelfCycle /\ index.tag = "err" THEN index
             ELSE IF new.target # SelfCycle /\ ~(index.val < Len(d.alphabet))
             THEN Panic("assertion failed: index < tr_count")
             ELSE derive_state_edges(d, creator, tr_start, i + 1,
                      Append(new_edges, [target |-> target, transition |-> kind]))

\* Dma::derive_state: the Dma it leaves and Ok(new_state) or Err, or Panic.
derive_state(d, blueprint, creator) ==
    LET tr_count == Len(d.alphabet)
        tr_start == tr_count * blueprint
        found    == Dma_creator(d, creator)
        edges    == derive_state_edges(d, [fn |-> Unwrap(found), own_kind |-> creator + 1],
                                       tr_start, 1, <<>>)
        added    == add_state(d, Unwrap(found).is_final, edges.val)
    IN  IF found = None THEN [tag |-> "ok", dma |-> d, result |-> Err("NoSuchCreator")]
        ELSE IF blueprint >= d.next_state
        THEN [tag |-> "ok", dma |-> d, result |-> Err("NoSuchState")]
        ELSE IF ~(Len(d.edges) >= tr_start + tr_count)
        THEN Panic("assertion failed: self.edges.len() >= tr_start + tr_count")
        ELSE IF IsPanic(edges) THEN edges
        ELSE IF edges.tag = "err" THEN [tag |-> "ok", dma |-> d, result |-> edges]
        ELSE [tag |-> "ok", dma |-> added.dma, result |-> Ok(added.new_state)]

\* Run::is_final; r is [backing |-> the Dma of the Run, state].
Run_is_final(r) == r.state \in r.backing.final_states

\* A create that moves to the state about to be derived before deriving it.
Run_create_eager(r, blueprint, creator) ==
    LET derived == derive_state(r.backing, blueprint, creator)
    IN  IF IsPanic(derived) THEN derived
        ELSE [tag |-> "ok", run |-> [backing |-> derived.dma, state |-> r.backing.next_state],
              result |-> IF derived.result.tag = "err" THEN derived.result ELSE Ok(Unit)]

\* Run::create: the Run it leaves and the Result, or Panic.
Run_create(r, blueprint, creator) ==
    LET derived == derive_state(r.backing, blueprint, creator)
    IN  IF IsPanic(derived) THEN derived
        ELSE IF derived.result.tag = "err"
        THEN [tag |-> "ok", run |-> [r EXCEPT !.backing = derived.dma], result |-> derived.result]
        ELSE [tag |-> "ok", run |-> [backing |-> derived.dma, state |-> derived.result.val],
              result |-> Ok(Unit)]

\* A transition_to that moves to the target of a Creating edge as it does for
\* a Standard one, deriving no state.
transition_to_standard(r, target, kind) ==
    [tag |-> "ok", run |-> [r EXCEPT !.state = target], result |-> Ok(Unit)]

\* Run::transition_to
transition_to(r, target, kind) ==
    IF kind = Standard THEN [tag |-> "ok", run |-> [r EXCEPT !.state = target], result |-> Ok(Unit)]
    ELSE Run_create(r, target, kind[2])

\* Run::next
Run_next(r, character) ==
    LET c    == Dma_index(r.backing, character)
        edge == Dma_edge(r.backing, r.state, c.val)
        kind == Dma_transition(r.backing, edge.val.transition)
    IN  IF c.tag = "err" THEN [tag |-> "ok", run |-> r, result |-> c]
        ELSE IF IsPanic(edge) THEN edge
        ELSE IF kind = None THEN [tag |-> "ok", run |-> r, result |-> Err("NoSuchEdge")]
        ELSE transition_to(r, edge.val.target, Unwrap(kind))

\* A matches that goes on with the next symbol after a failed next.
RECURSIVE Run_matches_through(_, _)
Run_matches_through(r, iter) ==
    IF iter = <<>> THEN [tag |-> "ok", run |-> r, result |-> Ok(Run_is_final(r))]
    ELSE LET step == Run_next(r, Head(iter))
         IN  IF IsPanic(step) THEN step
             ELSE Run_matches_through(step.run, Tail(iter))

\* A matches that puts the Run back to State(0) before it feeds the symbols.
RECURSIVE Run_matches_from(_, _)
Run_matches_from(r, iter) ==
    IF iter = <<>> THEN [tag |-> "ok", run |-> r, result |-> Ok(Run_is_final(r))]
    ELSE LET step == Run_next(r, Head(iter))
         IN  IF IsPanic(step) THEN step
             ELSE IF step.result.tag = "err" THEN step
             ELSE Run_matches_from(step.run, Tail(iter))
Run_matches_restarting(r, iter) == Run_matches_from([r EXCEPT !.state = 0], iter)

\* Run::matches: try_for_each stops at the first Err.
RECURSIVE Run_matches(_, _)
Run_matches(r, iter) ==
    IF iter = <<>> THEN [tag |-> "ok", run |-> r, result |-> Ok(Run_is_final(r))]
    ELSE LET step == Run_next(r, Head(iter))
         IN  IF IsPanic(step) THEN step
             ELSE IF step.result.tag = "err" THEN step
             ELSE Run_matches(step.run, Tail(iter))

---------------------------------------------------------------------------
(* dot.rs: the writer of dot files.  A str is the sequence of its          *)
(* characters, each a string of length one; what is written to the output   *)
(* is a sequence of lines, each a string ending in a newline.               *)

\* char::is_ascii_digit
AsciiDigits == <<"0", "1", "2", "3", "4", "5", "6", "7", "8", "9">>
is_ascii_digit(c) == \E i \in 1..Len(AsciiDigits) : AsciiDigits[i] = c

\* char::is_ascii_alphabetic
AsciiAlphabetic ==
    {"a", "b", "c", "d", "e", "f", "g", "h", "i", "j", "k", "l", "m", "n",
     "o", "p", "q", "r", "s", "t", "u", "v", "w", "x", "y", "z", "A", "B",
     "C", "D", "E", "F", "G", "H", "I", "J", "K", "L", "M", "N", "O", "P",
     "Q", "R", "S", "T", "U", "V", "W", "X", "Y", "Z"}
is_ascii_alphabetic(c) == c \in AsciiAlphabetic

\* The characters of a str, joined.
RECURSIVE Join(_)
Join(chars) == IF chars = <<>> THEN "" ELSE Head(chars) \o Join(Tail(chars))

\* slice::rotate_right(k): the last k elements move to the front; Ok(the
\* slice) or Panic.
rotate_right(v, k) ==
    IF k > Len(v) THEN Panic("assertion failed: k <= self.len()")
    ELSE Ok(SubSeq(v, Len(v) - k + 1, Len(v)) \o SubSeq(v, 1, Len(v) - k))

\* IdEnum::from_string_like, the loop that moves the backslashes in front of
\* the quotes: Ok(the vector after the loop) or Panic.
RECURSIVE escape_loop(_, _, _, _)
escape_loop(vec, num_inserts, text_end, new_end) ==
    IF num_inserts = 0 THEN Ok(vec)
    ELSE LET quotes == {i \in 1..text_end : vec[i] = "\""}
         IN  IF quotes = {} THEN Panic("at least one quote left infront")
             ELSE LET tail         == CHOOSE i \in quotes : \A j \in quotes : j <= i
                      quote_index  == tail - 1
                      relative_end == text_end - quote_index
                      rotated      == rotate_right(SubSeq(vec, quote_index + 1, new_end),
                                                   relative_end)
                  IN  IF IsPanic(rotated) THEN rotated
                      ELSE escape_loop(SubSeq(vec, 1, quote_index) \o rotated.val
                                           \o SubSeq(vec, new_end + 1, Len(vec)),
                                       num_inserts - 1, quote_index,
                                       quote_index + num_inserts - 1)

\* IdEnum::from_string_like: [tag |-> "id", kind, text], or Panic.
from_string_like(name) ==
    LET raw_identifier(c) == is_ascii_alphabetic(c) \/ is_ascii_digit(c) \/ c = "_"
        raw_identifier_begin(c) == is_ascii_alphabetic(c) \/ c = "_"
        quote_count == Cardinality({i \in 1..Len(name) : name[i] = "\""})
        new_len == Len(name) + quote_count
        escaped == escape_loop(name \o [i \in 1..quote_count |-> "\\"],
                               quote_count, Len(name), new_len)
    IN  IF name = <<>> THEN [tag |-> "id", kind |-> "Str", text |-> name]
        ELSE IF \A i \in 1..Len(name) : is_ascii_digit(name[i])
        THEN [tag |-> "id", kind |-> "Raw", text |-> name]
        ELSE IF /\ \A i \in 1..Len(name) : raw_identifier(name[i])
                /\ raw_identifier_begin(name[1])
        THEN [tag |-> "id", kind |-> "Raw", text |-> name]
        ELSE IF quote_count > 0
        THEN IF IsPanic(escaped) THEN escaped
             ELSE [tag |-> "id", kind |-> "Str", text |-> escaped.val]
        ELSE [tag |-> "id", kind |-> "Str", text |-> name]

\* From<usize> for Id
Id_from_usize(id) == [tag |-> "id", kind |-> "Numeral", text |-> id]

\* Display for IdEnum
Id_fmt(id) ==
    IF id.kind = "Numeral" THEN ToString(id.text)
    ELSE IF id.kind = "Raw" THEN Join(id.text)
    ELSE "\"" \o Join(id.text) \o "\""

\* Display for Edge; `label` is an Option<Id>.
Edge_fmt(label) ==
    IF IsSome(label) THEN "label" \o "=" \o Id_fmt(Unwrap(label)) \o "," ELSE ""

\* Display for Node; `peripheries` is an Option<usize>, the label is None.
Node_fmt(peripheries) ==
    IF IsSome(peripheries)
    THEN "peripheries" \o "=" \o ToString(Unwrap(peripheries)) \o "," ELSE ""

\* GraphWriter::new with Family::Directed and no name
GraphWriter_new == "digraph" \o " {\n"

\* GraphWriter::segment on two nodes with Some(edge), Family::Directed
GraphWriter_segment(begin, end, label) ==
    "\t" \o Id_fmt(Id_from_usize(begin)) \o " " \o "->" \o " "
         \o Id_fmt(Id_from_usize(end)) \o " " \o "[" \o Edge_fmt(label) \o "];\n"

\* GraphWriter::node with Some(node)
GraphWriter_node(id, peripheries) ==
    "\t" \o Id_fmt(id) \o " " \o "[" \o Node_fmt(peripheries) \o "];\n"

\* GraphWriter::end_into_inner
GraphWriter_end == "}\n"

\* format!("{}", ch) of a symbol: the symbols 0..9 stand for the chars '0'..'9'.
format_symbol(ch) == <<AsciiDigits[ch + 1]>>

\* The lines of the nodes of `finals` in the order `order` iterates them.
finals_lines(order) ==
    [i \in 1..Len(order) |-> GraphWriter_node(Id_from_usize(order[i]), Some(2))]

\* Dfa::write_to, the edge lines of the nodes from..next_id-1.
RECURSIVE Dfa_write_edges(_, _)
Dfa_write_edges(d, from) ==
    IF from >= d.graph.next_id THEN <<>>
    ELSE LET edges == iter_edges(d.graph, from)
         IN  [i \in 1..Len(edges) |->
                 GraphWriter_segment(from, edges[i][2],
                     Some(from_string_like(format_symbol(edges[i][1]))))]
             \o Dfa_write_edges(d, from + 1)

\* A write_to that writes the final states before the edges.
Dfa_write_to_finals_first(d, order) ==
    <<GraphWriter_new>> \o finals_lines(order) \o Dfa_write_edges(d, 0)
        \o <<GraphWriter_end>>

\* Dfa::write_to: the lines written; `order` is the order in which the hash
\* set of the final states is iterated.
Dfa_write_to(d, order) ==
    <<GraphWriter_new>> \o Dfa_write_edges(d, 0) \o finals_lines(order)
        \o <<GraphWriter_end>>

\* Nfa::write_to, the edge lines of the nodes from.. that Nodes::next yields.
RECURSIVE Nfa_write_edges(_, _)
Nfa_write_edges(n, from) ==
    IF NonDeterministic_edges(n.graph, from) = None THEN <<>>
    ELSE LET edges == Unwrap(NonDeterministic_edges(n.graph, from))
             label(e) == IF unlabel(n.graph, e[1]) = None THEN <<"ε">>
                         ELSE format_symbol(Unwrap(unlabel(n.graph, e[1])))
         IN  [i \in 1..Len(edges) |->
                 GraphWriter_segment(from, edges[i][2],
                     Some(from_string_like(label(edges[i]))))]
             \o Nfa_write_edges(n, from + 1)

\* Nfa::write_to: the lines written; `order` as for Dfa::write_to.
Nfa_write_to(n, order) ==
    <<GraphWriter_new>> \o Nfa_write_edges(n, 0) \o finals_lines(order)
        \o <<GraphWriter_end>>

---------------------------------------------------------------------------
(* The inputs the operations are applied to. *)

NodeIds == 0..MaxNode
OptionA == {None} \cup {Some(a) : a \in A}

\* Edge lists of Dfa::from_edges: (usize, A, usize).
DfaEdgeLists == SeqsUpTo(NodeIds \X A \X NodeIds, MaxEdges)
\* Edge lists of Nfa::from_edges: (usize, Option<A>, usize).
NfaEdgeLists == SeqsUpTo(NodeIds \X OptionA \X NodeIds, MaxEdges)
\* Lists of final states.
FinalLists == SeqsUpTo(NodeIds, MaxFinals)
\* Words over A.
Words == SeqsUpTo(A, MaxWord)
\* The deciders of pair: all functions bool x bool -> bool.
Deciders == [BOOLEAN \X BOOLEAN -> BOOLEAN]

\* The elements of a set of integers, largest first.
RECURSIVE Descending(_)
Descending(S) ==
    IF S = {} THEN <<>>
    ELSE LET m == CHOOSE x \in S : \A y \in S : y <= x
         IN  <<m>> \o Descending(S \ {m})

\* The edge lists of the total transition functions: one edge per (node, symbol)
\* for every alphabet S, node count n and delta : nodes x S -> nodes.
TotalEdgeLists ==
    UNION {UNION {
        {SetToSeq({<<e[1], e[2], delta[e]>> : e \in (0..(n - 1)) \X S}) :
            delta \in [(0..(n - 1)) \X S -> 0..(n - 1)]} :
        n \in 1..(IF S = {} THEN 1 ELSE MaxPairNodes)} :
        S \in SUBSET A}

\* The operands of pair: the Dfa that from_edges builds from the edge list of a
\* total transition function and a list of final states among its nodes.
PairOperands ==
    {d \in {Dfa_from_edges(edges, Descending(F)) :
                <<edges, F>> \in TotalEdgeLists \X SUBSET (0..(MaxPairNodes - 1))} :
        d.tag = "dfa" /\ \A f \in d.finals : f < d.graph.next_id}

\* edge_iter and finals_in after from_edges has consumed them. Nfa::from_edges
\* leaves them so; Dfa::from_edges is followed by a state that still shows
\* them next to the Dfa built from them, and the next operation drops them.
Consumed == <<>>

---------------------------------------------------------------------------
(* Dfa: construction, membership, conversion to an Nfa and back. *)

InitDfa ==
    /\ pc = "input"
    /\ edge_iter \in DfaEdgeLists \cup TotalEdgeLists
    /\ finals_in \in FinalLists
    /\ dfa = Null /\ rhs = Null /\ nfa = Null /\ arg = Null /\ ret = Null
    /\ dmas = Null /\ runs = Null
    /\ regex_self = Null /\ graph_self = Null

\* let dfa = Dfa::from_edges(edge_iter, finals_in)
FromEdges ==
    /\ pc = "input"
    /\ dfa' = Dfa_from_edges(edge_iter, finals_in)
    /\ pc' = "from_edges"
    /\ UNCHANGED <<regex_self, graph_self, dmas, runs, edge_iter, finals_in, rhs, nfa, arg, ret>>

\* dfa.contains(w)
Contains(w) ==
    /\ pc = "from_edges" /\ dfa.tag = "dfa"
    /\ arg' = w
    /\ ret' = Dfa_contains(dfa, w)
    /\ pc' = "contains"
    /\ edge_iter' = Consumed /\ finals_in' = Consumed
    /\ UNCHANGED <<regex_self, graph_self, dmas, runs, dfa, rhs, nfa>>

\* let nfa = dfa.to_nfa()
ToNfa ==
    /\ pc = "from_edges" /\ dfa.tag = "dfa"
    /\ nfa' = Dfa_to_nfa(dfa)
    /\ pc' = "to_nfa"
    /\ edge_iter' = Consumed /\ finals_in' = Consumed
    /\ UNCHANGED <<regex_self, graph_self, dmas, runs, dfa, rhs, arg, ret>>

\* nfa.contains(w) on the Nfa of to_nfa
ToNfaContains(w) ==
    /\ pc = "to_nfa"
    /\ arg' = w
    /\ ret' = Nfa_contains(nfa, w)
    /\ pc' = "to_nfa_contains"
    /\ UNCHANGED <<regex_self, graph_self, dmas, runs, edge_iter, finals_in, dfa, rhs, nfa>>

\* let rhs = nfa.into_dfa(vec![]) on the Nfa of to_nfa
RoundTrip ==
    /\ pc = "to_nfa"
    /\ rhs' = Nfa_into_dfa(nfa, <<>>)
    /\ pc' = "round_trip"
    /\ UNCHANGED <<regex_self, graph_self, dmas, runs, edge_iter, finals_in, dfa, nfa, arg, ret>>

\* rhs.contains(w) on the Dfa of the round trip
RoundTripContains(w) ==
    /\ pc = "round_trip" /\ rhs.tag = "dfa"
    /\ arg' = w
    /\ ret' = Dfa_contains(rhs, w)
    /\ pc' = "round_trip_contains"
    /\ UNCHANGED <<regex_self, graph_self, dmas, runs, edge_iter, finals_in, dfa, rhs, nfa>>

NextDfa ==
    \/ FromEdges
    \/ \E w \in Words : Contains(w)
    \/ ToNfa
    \/ \E w \in Words : ToNfaContains(w)
    \/ RoundTrip
    \/ \E w \in Words : RoundTripContains(w)

SpecDfa == InitDfa /\ [][NextDfa]_vars

---------------------------------------------------------------------------
(* Dfa: the product of two automata. *)

InitPair ==
    /\ pc = "operands"
    /\ dfa \in PairOperands
    /\ rhs \in PairOperands
    /\ edge_iter = Consumed /\ finals_in = Consumed
    /\ nfa = Null /\ arg = Null /\ ret = Null
    /\ dmas = Null /\ runs = Null
    /\ regex_self = Null /\ graph_self = Null

\* dfa.pair(&rhs, decider)
Pair(decider) ==
    /\ pc = "operands"
    /\ arg' = decider
    /\ ret' = Dfa_pair(dfa, rhs, decider)
    /\ pc' = "pair"
    /\ UNCHANGED <<regex_self, graph_self, dmas, runs, edge_iter, finals_in, dfa, rhs, nfa>>

\* dfa.pair_empty(&rhs, decider)
PairEmpty(decider) ==
    /\ pc = "operands"
    /\ arg' = decider
    /\ ret' = Dfa_pair_empty(dfa, rhs, decider)
    /\ pc' = "pair_empty"
    /\ UNCHANGED <<regex_self, graph_self, dmas, runs, edge_iter, finals_in, dfa, rhs, nfa>>

NextPair ==
    \/ \E decider \in Deciders : Pair(decider)
    \/ \E decider \in Deciders : PairEmpty(decider)

SpecPair == InitPair /\ [][NextPair]_vars

---------------------------------------------------------------------------
(* Nfa: construction, membership and conversion to a Dfa. *)

InitNfa ==
    /\ pc = "input"
    /\ edge_iter \in NfaEdgeLists
    /\ finals_in \in FinalLists
    /\ dfa = Null /\ rhs = Null /\ nfa = Null /\ arg = Null /\ ret = Null
    /\ dmas = Null /\ runs = Null
    /\ regex_self = Null /\ graph_self = Null

\* let nfa = Nfa::from_edges(edge_iter, finals_in)
NfaFromEdges ==
    /\ pc = "input"
    /\ nfa' = Nfa_from_edges(edge_iter, finals_in)
    /\ pc' = "nfa_from_edges"
    /\ edge_iter' = Consumed /\ finals_in' = Consumed
    /\ UNCHANGED <<regex_self, graph_self, dmas, runs, dfa, rhs, arg, ret>>

\* nfa.contains(w)
NfaContains(w) ==
    /\ pc = "nfa_from_edges"
    /\ arg' = w
    /\ ret' = Nfa_contains(nfa, w)
    /\ pc' = "nfa_contains"
    /\ UNCHANGED <<regex_self, graph_self, dmas, runs, edge_iter, finals_in, dfa, rhs, nfa>>

\* let rhs = nfa.into_dfa(alphabet_extension)
IntoDfa(alphabet_extension) ==
    /\ pc = "nfa_from_edges"
    /\ arg' = alphabet_extension
    /\ rhs' = Nfa_into_dfa(nfa, alphabet_extension)
    /\ pc' = "into_dfa"
    /\ UNCHANGED <<regex_self, graph_self, dmas, runs, edge_iter, finals_in, dfa, nfa, ret>>

\* nfa.to_regex(), the multimap iterated in one order or its reverse
ToRegex(reversed) ==
    /\ pc = "nfa_from_edges"
    /\ arg' = reversed
    /\ ret' = Nfa_to_regex(nfa, reversed)
    /\ pc' = "to_regex"
    /\ UNCHANGED <<regex_self, graph_self, dmas, runs, edge_iter, finals_in, dfa, rhs, nfa>>

NextNfa ==
    \/ NfaFromEdges
    \/ \E w \in Words : NfaContains(w)
    \/ \E alphabet_extension \in SeqsUpTo(A, MaxExtension) : IntoDfa(alphabet_extension)

SpecNfa == InitNfa /\ [][NextNfa]_vars

---------------------------------------------------------------------------
(* Nfa: construction and conversion to a regex. *)

NextRegex ==
    \/ NfaFromEdges
    \/ \E reversed \in BOOLEAN : ToRegex(reversed)

SpecRegex == InitNfa /\ [][NextRegex]_vars

---------------------------------------------------------------------------
(* Nfa: conversion to a regex of graphs of epsilon edges over more nodes.  *)

\* Edge lists of exactly EpsilonEdges epsilon edges over the nodes 0..MaxEpsilonNode.
EpsilonEdgeLists ==
    {edges \in SeqsUpTo((0..MaxEpsilonNode) \X {None} \X (0..MaxEpsilonNode), EpsilonEdges) :
        Len(edges) = EpsilonEdges}

InitEpsilon ==
    /\ pc = "input"
    /\ edge_iter \in EpsilonEdgeLists
    /\ finals_in \in SeqsUpTo(0..MaxEpsilonNode, MaxFinals)
    /\ dfa = Null /\ rhs = Null /\ nfa = Null /\ arg = Null /\ ret = Null
    /\ dmas = Null /\ runs = Null
    /\ regex_self = Null /\ graph_self = Null

SpecEpsilon == InitEpsilon /\ [][NextRegex]_vars

---------------------------------------------------------------------------
(* Dma: building a template, starting Runs from it and feeding them.       *)
(* While the template is built, arg and ret are the last call and what it  *)
(* returned; once a Run exists, arg[i] is the list of calls made on Run i, *)
(* <<"next", <<c>>>> or <<"matches", w>>, and ret[i] the list of what they *)
(* returned.                                                               *)

\* The alphabets handed to Dma::new.
DmaAlphabets == {<<1>>, <<2, 1>>}

\* What a creator answers for one symbol.
NewEdges ==
    {NewEdge(target, kind) : target \in {SelfCycle} \cup {Target(a) : a \in A},
                             kind \in {None, Some(0)}}

\* The creator functions over an alphabet: is_final and the answer of edge for
\* each symbol it is asked about.
Creators(alphabet) ==
    {[is_final |-> f, edge |-> e] : f \in BOOLEAN, e \in [SeqRange(alphabet) -> NewEdges]}

\* The edge lists handed to new_state.
StateEdgeLists == SeqsUpTo((0..MaxDmaStates) \X (0..MaxCreators), MaxStateEdges)

\* The words handed to matches.
RunWords == SeqsUpTo(A, MaxRunWord)

\* The place of the template in the store.
Template == 1

\* Run i with its Dma taken from the store.
RunOf(i) == [backing |-> dmas[runs[i].backing], state |-> runs[i].state]

InitDma ==
    /\ pc = "dma"
    /\ dmas \in {<<Dma_new(alphabet)>> : alphabet \in DmaAlphabets}
    /\ runs = <<>>
    /\ arg = <<"new", dmas[Template].alphabet>> /\ ret = Null
    /\ edge_iter = Consumed /\ finals_in = Consumed
    /\ dfa = Null /\ rhs = Null /\ nfa = Null
    /\ regex_self = Null /\ graph_self = Null

\* dma.new_transition(creator)
NewTransition(creator) ==
    /\ pc = "dma"
    /\ Len(dmas[Template].creator) < MaxCreators
    /\ LET created == new_transition(dmas[Template], creator)
       IN  /\ dmas' = [dmas EXCEPT ![Template] = created.dma]
           /\ arg' = <<"new_transition", creator>>
           /\ ret' = Ok(created.new_id)
    /\ UNCHANGED <<regex_self, graph_self, pc, runs, edge_iter, finals_in, dfa, rhs, nfa>>

\* dma.new_state(is_final, edges)
NewState(is_final, edges) ==
    /\ pc = "dma"
    /\ dmas[Template].next_state < MaxDmaStates
    /\ LET added == Dma_new_state(dmas[Template], is_final, edges)
       IN  /\ pc' = IF IsPanic(added) THEN "aborted" ELSE "dma"
           /\ dmas' = IF IsPanic(added) THEN dmas ELSE [dmas EXCEPT ![Template] = added.dma]
           /\ arg' = <<"new_state", is_final, edges>>
           /\ ret' = IF IsPanic(added) THEN added ELSE Ok(added.val)
    /\ UNCHANGED <<regex_self, graph_self, runs, edge_iter, finals_in, dfa, rhs, nfa>>

\* let run = dma.run()
Run ==
    /\ pc \in {"dma", "run"}
    /\ Len(runs) < MaxRuns
    /\ LET started == Dma_run(dmas, Template)
       IN  IF IsPanic(started)
           THEN /\ pc' = "aborted"
                /\ arg' = <<"run">>
                /\ ret' = started
                /\ UNCHANGED <<regex_self, graph_self, dmas, runs>>
           ELSE /\ pc' = "run"
                /\ dmas' = started.store
                /\ runs' = Append(runs, started.run)
                /\ arg' = Append(IF pc = "dma" THEN <<>> ELSE arg, <<>>)
                /\ ret' = Append(IF pc = "dma" THEN <<>> ELSE ret, <<>>)
    /\ UNCHANGED <<regex_self, graph_self, edge_iter, finals_in, dfa, rhs, nfa>>

\* What a call on Run i leaves: `done` is [run, result] or Panic.
Called(i, call, done) ==
    /\ pc' = IF IsPanic(done) THEN "aborted" ELSE "run"
    /\ dmas' = IF IsPanic(done) THEN dmas ELSE [dmas EXCEPT ![runs[i].backing] = done.run.backing]
    /\ runs' = IF IsPanic(done) THEN runs ELSE [runs EXCEPT ![i].state = done.run.state]
    /\ arg' = [arg EXCEPT ![i] = Append(@, call)]
    /\ ret' = [ret EXCEPT ![i] = Append(@, IF IsPanic(done) THEN done ELSE done.result)]
    /\ UNCHANGED <<regex_self, graph_self, edge_iter, finals_in, dfa, rhs, nfa>>

\* runs[i].next(c), on a Run that matches was not called on
RunNext(i, c) ==
    /\ pc = "run"
    /\ Len(arg[i]) < MaxCalls
    /\ \A k \in 1..Len(arg[i]) : arg[i][k][1] = "next"
    /\ Called(i, <<"next", <<c>>>>, Run_next(RunOf(i), c))

\* runs[i].matches(w), on a Run that was not used yet
RunMatches(i, w) ==
    /\ pc = "run"
    /\ arg[i] = <<>>
    /\ Called(i, <<"matches", w>>, Run_matches(RunOf(i), w))

NextDma ==
    \/ \E creator \in Creators(dmas[Template].alphabet) : NewTransition(creator)
    \/ \E is_final \in BOOLEAN : \E edges \in StateEdgeLists : NewState(is_final, edges)
    \/ Run
    \/ \E i \in 1..Len(runs) : \E c \in A : RunNext(i, c)
    \/ \E i \in 1..Len(runs) : \E w \in RunWords : RunMatches(i, w)

SpecDma == InitDma /\ [][NextDma]_vars

---------------------------------------------------------------------------
(* Dma: one Run of a template and matches called on it again and again.    *)

\* let run = dma.run(), the only Run
RunAlone ==
    /\ runs = <<>>
    /\ Run

\* runs[i].matches(w), on a Run that only matches was called on
MatchesAgain(i, w) ==
    /\ pc = "run"
    /\ Len(arg[i]) < MaxCalls
    /\ \A k \in 1..Len(arg[i]) : arg[i][k][1] = "matches"
    /\ Called(i, <<"matches", w>>, Run_matches(RunOf(i), w))

NextMatches ==
    \/ \E creator \in Creators(dmas[Template].alphabet) : NewTransition(creator)
    \/ \E is_final \in BOOLEAN : \E edges \in StateEdgeLists : NewState(is_final, edges)
    \/ RunAlone
    \/ \E i \in 1..Len(runs) : \E w \in RunWords : MatchesAgain(i, w)

SpecMatches == InitDma /\ [][NextMatches]_vars

---------------------------------------------------------------------------
(* Dma: templates with several kinds of transition, one initial state and  *)
(* one Run.                                                                *)

\* The creators that answer SelfCycle for every symbol, with no kind or with
\* a transition id up to MaxTransitions.
CyclingCreators(alphabet) ==
    {[is_final |-> f, edge |-> [c \in SeqRange(alphabet) |-> NewEdge(SelfCycle, kind)]] :
        f \in BOOLEAN, kind \in {None} \cup {Some(k) : k \in 0..MaxTransitions}}

\* The edge lists of a state whose edges all lead to State(0), one edge for
\* each symbol of the alphabet.
CyclingEdgeLists(alphabet) ==
    {edges \in SeqsUpTo({0} \X (0..MaxTransitions), Len(alphabet)) : Len(edges) = Len(alphabet)}

\* dma.new_transition(creator), up to MaxTransitions times
RegisterTransition(creator) ==
    /\ pc = "dma"
    /\ Len(dmas[Template].creator) < MaxTransitions
    /\ LET created == new_transition(dmas[Template], creator)
       IN  /\ dmas' = [dmas EXCEPT ![Template] = created.dma]
           /\ arg' = <<"new_transition", creator>>
           /\ ret' = Ok(created.new_id)
    /\ UNCHANGED <<regex_self, graph_self, pc, runs, edge_iter, finals_in, dfa, rhs, nfa>>

NextTransitions ==
    \/ \E creator \in CyclingCreators(dmas[Template].alphabet) : RegisterTransition(creator)
    \/ \E is_final \in BOOLEAN :
          \E edges \in CyclingEdgeLists(dmas[Template].alphabet) : NewState(is_final, edges)
    \/ RunAlone
    \/ \E i \in 1..Len(runs) : \E c \in A : RunNext(i, c)

SpecTransitions == InitDma /\ [][NextTransitions]_vars

---------------------------------------------------------------------------
(* Regex and Cached: a regex DAG built by push and insert.  arg is the     *)
(* list of the calls made so far, <<"push", op>>, <<"insert", op>>,        *)
(* <<"cached">> or <<"into_inner">>, and ret the list of what they         *)
(* returned; pc tells whether regex_self is a Regex or a Cached.           *)

\* The operations handed to push and insert; their handles range over 0..MaxHandle.
RegexOps ==
    {OpEpsilon} \cup {OpMatch(a) : a \in A}
        \cup {OpStar(h) : h \in 0..MaxHandle}
        \cup {OpOr(h[1], h[2]) : h \in (0..MaxHandle) \X (0..MaxHandle)}
        \cup {OpConcat(h[1], h[2]) : h \in (0..MaxHandle) \X (0..MaxHandle)}

InitRegex ==
    /\ pc = "regex"
    /\ regex_self = Regex_new
    /\ arg = <<>> /\ ret = <<>>
    /\ edge_iter = Consumed /\ finals_in = Consumed
    /\ dfa = Null /\ rhs = Null /\ nfa = Null
    /\ dmas = Null /\ runs = Null /\ graph_self = Null

\* regex_self.push(op)
Push(op) ==
    /\ pc = "regex"
    /\ Len(arg) < MaxRegexCalls
    /\ LET pushed == Regex_push(regex_self, op)
       IN  /\ pc' = IF IsPanic(pushed) THEN "aborted" ELSE "regex"
           /\ regex_self' = IF IsPanic(pushed) THEN regex_self ELSE pushed.regex
           /\ ret' = Append(ret, IF IsPanic(pushed) THEN pushed ELSE Ok(pushed.handle))
    /\ arg' = Append(arg, <<"push", op>>)
    /\ UNCHANGED <<graph_self, dmas, runs, edge_iter, finals_in, dfa, rhs, nfa>>

\* let regex_self = regex_self.cached()
MakeCached ==
    /\ pc = "regex"
    /\ Len(arg) < MaxRegexCalls
    /\ pc' = "cached"
    /\ regex_self' = Regex_cached(regex_self)
    /\ arg' = Append(arg, <<"cached">>)
    /\ ret' = Append(ret, Null)
    /\ UNCHANGED <<graph_self, dmas, runs, edge_iter, finals_in, dfa, rhs, nfa>>

\* regex_self.insert(op)
Insert(op) ==
    /\ pc = "cached"
    /\ Len(arg) < MaxRegexCalls
    /\ LET inserted == Cached_insert(regex_self, op)
       IN  /\ pc' = IF IsPanic(inserted) THEN "aborted" ELSE "cached"
           /\ regex_self' = IF IsPanic(inserted) THEN regex_self ELSE inserted.cached
           /\ ret' = Append(ret, IF IsPanic(inserted) THEN inserted ELSE Ok(inserted.handle))
    /\ arg' = Append(arg, <<"insert", op>>)
    /\ UNCHANGED <<graph_self, dmas, runs, edge_iter, finals_in, dfa, rhs, nfa>>

\* let regex_self = regex_self.into_inner()
IntoInner ==
    /\ pc = "cached"
    /\ Len(arg) < MaxRegexCalls
    /\ pc' = "regex"
    /\ regex_self' = Cached_into_inner(regex_self)
    /\ arg' = Append(arg, <<"into_inner">>)
    /\ ret' = Append(ret, Null)
    /\ UNCHANGED <<graph_self, dmas, runs, edge_iter, finals_in, dfa, rhs, nfa>>

NextCached ==
    \/ \E op \in RegexOps : Push(op)
    \/ MakeCached
    \/ \E op \in RegexOps : Insert(op)
    \/ IntoInner

SpecCached == InitRegex /\ [][NextCached]_vars

---------------------------------------------------------------------------
(* The Deterministic graph on its own: new on any list of symbols, then    *)
(* node(), edge writes through edges_mut(node).unwrap()[ch] and edges(h)   *)
(* in any order.  arg and ret hold the last call and what it returned.     *)

GraphSymbols == 1..MaxSymbol

SymbolLists == SeqsUpTo(GraphSymbols, MaxSymbols)

InitGraph ==
    /\ pc = "graph"
    /\ \E alphabet \in SymbolLists :
          /\ graph_self = Deterministic_new(alphabet)
          /\ arg = <<"new", alphabet>>
    /\ ret = Null
    /\ edge_iter = Consumed /\ finals_in = Consumed
    /\ dfa = Null /\ rhs = Null /\ nfa = Null
    /\ dmas = Null /\ runs = Null /\ regex_self = Null

\* graph_self.node()
Node ==
    /\ pc = "graph"
    /\ graph_self.next_id < MaxGraphNodes
    /\ graph_self' = Deterministic_node(graph_self).graph
    /\ arg' = <<"node">>
    /\ ret' = Ok(Deterministic_node(graph_self).id)
    /\ UNCHANGED <<pc, regex_self, dmas, runs, edge_iter, finals_in, dfa, rhs, nfa>>

\* graph_self.edges_mut(node).unwrap()[ch] = Some(target)
WriteEdge(node, ch, target) ==
    /\ pc = "graph"
    /\ arg' = <<"write", node, ch, target>>
    /\ IF valid_edges_range(graph_self, node) = None
       THEN /\ pc' = "aborted"
            /\ ret' = Panic("called Option::unwrap() on a None value")
            /\ UNCHANGED graph_self
       ELSE IF BinarySearch(graph_self.alphabet, ch) = None
       THEN /\ pc' = "aborted"
            /\ ret' = Panic("Mismatch between deterministic alphabet and character")
            /\ UNCHANGED graph_self
       ELSE /\ pc' = "graph"
            /\ ret' = Ok(Unit)
            /\ graph_self' = edges_mut_set(graph_self, node, ch, target)
    /\ UNCHANGED <<regex_self, dmas, runs, edge_iter, finals_in, dfa, rhs, nfa>>

\* graph_self.edges(h)
ReadEdges(h) ==
    /\ pc = "graph"
    /\ arg' = <<"edges", h>>
    /\ ret' = Deterministic_edges(graph_self, h)
    /\ UNCHANGED <<pc, graph_self, regex_self, dmas, runs, edge_iter, finals_in,
                   dfa, rhs, nfa>>

NextGraph ==
    \/ Node
    \/ \E node \in 0..MaxGraphNodes, ch \in GraphSymbols, target \in 0..(MaxGraphNodes - 1) :
          WriteEdge(node, ch, target)
    \/ \E h \in 0..(MaxGraphNodes + 1) : ReadEdges(h)

SpecGraph == InitGraph /\ [][NextGraph]_vars

---------------------------------------------------------------------------
(* The two ways to a NonDeterministic graph: a Builder filled by insert    *)
(* calls and finished, and from_deterministic on a Deterministic graph in  *)
(* any state of its construction.  The finished graph is left in ret.      *)

InitBuilder ==
    /\ pc = "builder"
    /\ graph_self = Builder_default
    /\ arg = <<"builder">>
    /\ ret = Null
    /\ edge_iter = Consumed /\ finals_in = Consumed
    /\ dfa = Null /\ rhs = Null /\ nfa = Null
    /\ dmas = Null /\ runs = Null /\ regex_self = Null

InitNonDeterministic == InitBuilder \/ InitGraph

\* The elements of the vectors of v, counted.
RECURSIVE SumLens(_)
SumLens(v) == IF v = <<>> THEN 0 ELSE Len(Head(v)) + SumLens(Tail(v))

\* The insert calls made on the builder so far.
Inserted(b) == SumLens(b.edges) + SumLens(b.epsilons)

\* graph_self.insert(from, character, to)
BuilderInsert(from, character, to) ==
    /\ pc = "builder"
    /\ Inserted(graph_self) < MaxInserts
    /\ graph_self' = Builder_insert(graph_self, from, character, to)
    /\ arg' = <<"insert", from, character, to>>
    /\ ret' = Null
    /\ UNCHANGED <<pc, regex_self, dmas, runs, edge_iter, finals_in, dfa, rhs, nfa>>

\* graph_self.finish()
BuilderFinish ==
    /\ pc = "builder"
    /\ pc' = "finished"
    /\ arg' = <<"finish">>
    /\ ret' = Builder_finish(graph_self)
    /\ UNCHANGED <<graph_self, regex_self, dmas, runs, edge_iter, finals_in, dfa, rhs, nfa>>

\* NonDeterministic::from_deterministic(&graph_self)
FromDeterministic ==
    /\ pc = "graph"
    /\ pc' = "finished"
    /\ arg' = <<"from_deterministic">>
    /\ ret' = from_deterministic(graph_self)
    /\ UNCHANGED <<graph_self, regex_self, dmas, runs, edge_iter, finals_in, dfa, rhs, nfa>>

NextNonDeterministic ==
    \/ \E from \in 0..MaxBuilderNode, to \in 0..MaxBuilderNode :
          \E character \in {None} \cup {Some(ch) : ch \in GraphSymbols} :
              BuilderInsert(from, character, to)
    \/ BuilderFinish
    \/ NextGraph
    \/ FromDeterministic

SpecNonDeterministic == InitNonDeterministic /\ [][NextNonDeterministic]_vars

---------------------------------------------------------------------------
(* Dfa and Nfa written as dot files.  The inputs are those of the          *)
(* specifications above and the automata of the tests build_and_format.    *)

\* dfa.rs, tests::build_and_format: the edges of the automaton.
Mod3Edges ==
    << <<0, 0, 0>>, <<0, 1, 1>>, <<1, 0, 2>>, <<1, 1, 0>>, <<2, 0, 1>>, <<2, 1, 2>> >>

\* nfa.rs, tests::build_and_format: the edges of the automaton.
BuildAndFormatEdges ==
    << <<0, Some(0), 0>>, <<0, None, 1>>, <<0, Some(1), 1>>, <<1, Some(0), 0>> >>

DotFinalLists == SeqsUpTo(NodeIds, MaxDotFinals)

\* The orders in which a hash set S can be iterated.
Orders(S) == {o \in SeqsUpTo(S, Cardinality(S)) : SeqRange(o) = S}

InitDfaDot ==
    /\ pc = "input"
    /\ edge_iter \in DfaEdgeLists \cup TotalEdgeLists \cup {Mod3Edges}
    /\ finals_in \in DotFinalLists
    /\ dfa = Null /\ rhs = Null /\ nfa = Null /\ arg = Null /\ ret = Null
    /\ dmas = Null /\ runs = Null
    /\ regex_self = Null /\ graph_self = Null

\* dfa.write_to(&mut output); ret is the output, line by line
DfaWriteTo ==
    /\ pc = "from_edges" /\ dfa.tag = "dfa"
    /\ \E order \in Orders(dfa.finals) :
          /\ arg' = order
          /\ ret' = Dfa_write_to(dfa, order)
    /\ pc' = "write_to"
    /\ edge_iter' = Consumed /\ finals_in' = Consumed
    /\ UNCHANGED <<regex_self, graph_self, dmas, runs, dfa, rhs, nfa>>

NextDfaDot ==
    \/ FromEdges
    \/ DfaWriteTo

SpecDfaDot == InitDfaDot /\ [][NextDfaDot]_vars

InitNfaDot ==
    /\ pc = "input"
    /\ edge_iter \in NfaEdgeLists \cup {BuildAndFormatEdges}
    /\ finals_in \in DotFinalLists
    /\ dfa = Null /\ rhs = Null /\ nfa = Null /\ arg = Null /\ ret = Null
    /\ dmas = Null /\ runs = Null
    /\ regex_self = Null /\ graph_self = Null

\* nfa.write_to(&mut output); ret is the output, line by line
NfaWriteTo ==
    /\ pc = "nfa_from_edges"
    /\ \E order \in Orders(nfa.finals) :
          /\ arg' = order
          /\ ret' = Nfa_write_to(nfa, order)
    /\ pc' = "nfa_write_to"
    /\ UNCHANGED <<regex_self, graph_self, dmas, runs, edge_iter, finals_in, dfa, rhs, nfa>>

NextNfaDot ==
    \/ NfaFromEdges
    \/ NfaWriteTo

SpecNfaDot == InitNfaDot /\ [][NextNfaDot]_vars

---------------------------------------------------------------------------
(* Id: built from a string and written with Display.                       *)

\* The characters of the strings: a letter, a digit, the underscore, the
\* double quote and the space.
NameChars == {"a", "1", "_", "\"", " "}

\* The strings an Id is built from.
Names == SeqsUpTo(NameChars, MaxNameLen)

InitId ==
    /\ pc = "name"
    /\ arg \in Names
    /\ ret = Null
    /\ edge_iter = Consumed /\ finals_in = Consumed
    /\ dfa = Null /\ rhs = Null /\ nfa = Null
    /\ dmas = Null /\ runs = Null
    /\ regex_self = Null /\ graph_self = Null

\* let id = Id::from(name)
IdFrom ==
    /\ pc = "name"
    /\ pc' = "id"
    /\ ret' = from_string_like(arg)
    /\ UNCHANGED <<arg, regex_self, graph_self, dmas, runs, edge_iter, finals_in, dfa, rhs, nfa>>

\* format!("{}", id)
IdFormat ==
    /\ pc = "id" /\ ~IsPanic(ret)
    /\ pc' = "format"
    /\ ret' = Id_fmt(ret)
    /\ UNCHANGED <<arg, regex_self, graph_self, dmas, runs, edge_iter, finals_in, dfa, rhs, nfa>>

NextId ==
    \/ IdFrom
    \/ IdFormat

SpecId == InitId /\ [][NextId]_vars

---------------------------------------------------------------------------
(* What the operations are measured against: the language of an automaton  *)
(* read off its stored edges, independently of the operations above.       *)

\* The words over the symbols S, up to the longest word queried.
WordsOver(S) == {w \in Words : SeqRange(w) \subseteq S}

\* The slot of (state s, symbol a) in the edge array of a Dfa.
SlotOf(d, s, a) ==
    d.graph.edges[s * Len(d.graph.alphabet)
                  + (CHOOSE i \in 1..Len(d.graph.alphabet) : d.graph.alphabet[i] = a)]

\* The state a Dfa is in after reading w from node 0, one edge per symbol.
RECURSIVE StateAfter(_, _)
StateAfter(d, w) ==
    IF w = <<>> THEN 0
    ELSE Unwrap(SlotOf(d, StateAfter(d, SubSeq(w, 1, Len(w) - 1)), w[Len(w)]))

\* The (state, symbol, target) edges a Dfa stores.
DfaTriples(d) ==
    {<<s, d.graph.alphabet[i], Unwrap(d.graph.edges[s * Len(d.graph.alphabet) + i])>> :
        <<s, i>> \in {p \in (0..(d.graph.next_id - 1)) \X (1..Len(d.graph.alphabet)) :
                        IsSome(d.graph.edges[p[1] * Len(d.graph.alphabet) + p[2]])}}

\* The (node, Option<symbol>, target) edges an Nfa stores.
NfaTriples(n) ==
    {<<s, IF n.graph.edges[i][1] = LabelEPSILON THEN None
          ELSE Some(n.graph.characters[n.graph.edges[i][1]]), n.graph.edges[i][2]>> :
        <<s, i>> \in {p \in (0..(Len(n.graph.ranges) - 1)) \X (1..Len(n.graph.edges)) :
                        /\ n.graph.ranges[p[1] + 1][1] < p[2]
                        /\ p[2] <= n.graph.ranges[p[1] + 1][2]}}

\* The nodes reachable from the nodes S by epsilon edges only.
RECURSIVE EpsilonPaths(_, _)
EpsilonPaths(n, S) ==
    LET more == S \cup {t[3] : t \in {u \in NfaTriples(n) : u[1] \in S /\ u[2] = None}}
    IN  IF more = S THEN S ELSE EpsilonPaths(n, more)

\* The nodes at the end of a path from node 0 whose labels, epsilons skipped, spell w.
RECURSIVE PathEnds(_, _)
PathEnds(n, w) ==
    IF w = <<>> THEN EpsilonPaths(n, {0})
    ELSE LET before == PathEnds(n, SubSeq(w, 1, Len(w) - 1))
             step   == {t[3] : t \in {u \in NfaTriples(n) :
                                        u[1] \in before /\ u[2] = Some(w[Len(w)])}}
         IN  EpsilonPaths(n, step)

\* w is spelled by a path of the Nfa from node 0 to a final node.
HasAcceptingPath(n, w) == PathEnds(n, w) \cap n.finals # {}

---------------------------------------------------------------------------
(* The claims about Dfa::from_edges, Dfa::contains and Dfa::to_nfa, under  *)
(* SpecDfa.                                                                *)

\* C1: every Dfa that Dfa::from_edges returns is complete: the edge array has
\* exactly node_count * |alphabet| slots, and for every node s < node_count and
\* every symbol of the alphabet the slot (s, symbol) holds a target.
C1_FromEdgesComplete ==
    (pc = "from_edges" /\ dfa.tag = "dfa") =>
        /\ Len(dfa.graph.edges) = dfa.graph.next_id * Len(dfa.graph.alphabet)
        /\ \A s \in 0..(dfa.graph.next_id - 1) : \A i \in 1..Len(dfa.graph.alphabet) :
               IsSome(dfa.graph.edges[s * Len(dfa.graph.alphabet) + i])

\* from_edges has returned a Dfa of two nodes over a non-empty alphabet.
C1_Witness ==
    /\ pc = "from_edges" /\ dfa.tag = "dfa"
    /\ dfa.graph.next_id = 2 /\ Len(dfa.graph.alphabet) >= 1

\* C4: for every Dfa D and every word w over D's alphabet, the empty word
\* included, D.to_nfa().into_dfa([]) is a Dfa and its contains(w) equals
\* D.contains(w).
C4_RoundTrip ==
    /\ pc = "round_trip" => rhs.tag = "dfa"
    /\ (pc = "round_trip_contains" /\ arg \in WordsOver(SeqRange(Dfa_alphabet(dfa))))
           => ret = Dfa_contains(dfa, arg)

\* D accepts the empty word and D.to_nfa().into_dfa([]) does not.
C4_Witness ==
    /\ pc = "round_trip_contains" /\ arg = <<>>
    /\ Dfa_contains(dfa, arg) = Ok(TRUE) /\ ret = Ok(FALSE)

\* C8: Dfa::contains(w) is true exactly when the state reached from node 0 by
\* following, for each symbol of w in order, the edge of that symbol is final;
\* for the empty word that state is node 0.
C8_DfaContains ==
    (pc = "contains" /\ arg \in WordsOver(SeqRange(Dfa_alphabet(dfa))))
        => ret = Ok(StateAfter(dfa, arg) \in dfa.finals)

\* contains has accepted a word of three symbols in a Dfa whose node 0 is not final.
C8_Witness ==
    /\ pc = "contains" /\ Len(arg) = 3 /\ ret = Ok(TRUE)
    /\ 0 \notin dfa.finals /\ dfa.graph.next_id = 2

\* C9: to_nfa keeps every (state, symbol, target) edge and the set of final
\* states, and for every word w over D's alphabet D.to_nfa().contains(w)
\* equals D.contains(w).
C9_ToNfa ==
    /\ pc \in {"to_nfa", "to_nfa_contains"} =>
           /\ NfaTriples(nfa) = {<<t[1], Some(t[2]), t[3]>> : t \in DfaTriples(dfa)}
           /\ nfa.finals = dfa.finals
    /\ (pc = "to_nfa_contains" /\ arg \in WordsOver(SeqRange(Dfa_alphabet(dfa))))
           => ret = Dfa_contains(dfa, arg)

\* The Nfa of to_nfa has accepted a word of two or more symbols of a two-node Dfa.
C9_Witness ==
    /\ pc = "to_nfa_contains" /\ Len(arg) >= 2 /\ ret = Ok(TRUE)
    /\ dfa.graph.next_id = 2 /\ 0 \notin dfa.finals

\* The symbols on the edges of edge_iter that leave the node.
OutSymbols(node) ==
    {edge_iter[i][2] : i \in {j \in 1..Len(edge_iter) : edge_iter[j][1] = node}}

\* C10: Dfa::from_edges rejects every input, whatever the list of final states,
\* in which two source nodes have different non-empty sets of outgoing symbols.
C10_RejectsNonUniform ==
    (/\ pc = "from_edges"
     /\ \E s \in NodeIds : \E t \in NodeIds :
            /\ OutSymbols(s) # {} /\ OutSymbols(t) # {}
            /\ OutSymbols(s) # OutSymbols(t))
        => IsPanic(dfa)

\* from_edges has returned a Dfa for edges whose two sources use different symbols.
C10_Witness ==
    /\ pc = "from_edges"
    /\ edge_iter = <<<<0, 1, 1>>, <<1, 2, 0>>>> /\ finals_in = <<0>>
    /\ dfa.tag = "dfa"

---------------------------------------------------------------------------
(* The claims about Dfa::pair and Dfa::pair_empty, under SpecPair.          *)

\* The pairs of states reachable from the pairs S by reading the same symbol in
\* both automata.
RECURSIVE ReachablePairs(_, _, _)
ReachablePairs(left, right, S) ==
    LET more == S \cup {<<Unwrap(SlotOf(left, p[1], x)), Unwrap(SlotOf(right, p[2], x))>> :
                           p \in S, x \in SeqRange(Dfa_alphabet(left))}
    IN  IF more = S THEN S ELSE ReachablePairs(left, right, more)

\* C2: for Dfas A and B with equal alphabets, every decider f and every word w
\* over the alphabet: if A.pair(B, f) returns Some(P) then P.contains(w) equals
\* f(A.contains(w), B.contains(w)); if it returns None then
\* f(A.contains(w), B.contains(w)) is false for every w.
C2_Pair ==
    (pc = "pair" /\ Dfa_alphabet(dfa) = Dfa_alphabet(rhs)) =>
        /\ ret.tag = "ok"
        /\ \A w \in WordsOver(SeqRange(Dfa_alphabet(dfa))) :
               LET want == arg[<<Dfa_contains(dfa, w).val, Dfa_contains(rhs, w).val>>]
               IN  IF IsSome(ret.val)
                   THEN Dfa_contains(Unwrap(ret.val), w) = Ok(want)
                   ELSE ~want

\* pair has returned a product of four states over two symbols, some of them
\* final and some not.
C2_Witness ==
    /\ pc = "pair" /\ ret.tag = "ok" /\ IsSome(ret.val)
    /\ Dfa_alphabet(dfa) = <<1, 2>>
    /\ Unwrap(ret.val).graph.next_id = 4
    /\ Cardinality(Unwrap(ret.val).finals) \in {1, 2, 3}

\* C3: for Dfas A and B with equal alphabets and every decider f,
\* A.pair_empty(B, f) is true exactly when A.pair(B, f) returns None, which is
\* exactly when no pair of states reachable from (0, 0) satisfies
\* f(left is final, right is final).
C3_PairEmpty ==
    (pc = "pair_empty" /\ Dfa_alphabet(dfa) = Dfa_alphabet(rhs)) =>
        /\ ret.tag = "ok"
        /\ ret.val = (Dfa_pair(dfa, rhs, arg) = Ok(None))
        /\ ret.val = (~\E p \in ReachablePairs(dfa, rhs, {<<0, 0>>}) :
                          arg[<<p[1] \in dfa.finals, p[2] \in rhs.finals>>])

\* pair_empty has returned true for a decider that is true somewhere, having
\* visited three or more reachable pairs.
C3_Witness ==
    /\ pc = "pair_empty" /\ ret = Ok(TRUE)
    /\ Dfa_alphabet(dfa) = Dfa_alphabet(rhs)
    /\ \E b \in BOOLEAN \X BOOLEAN : arg[b]
    /\ Cardinality(ReachablePairs(dfa, rhs, {<<0, 0>>})) >= 3

---------------------------------------------------------------------------
(* The claims about Nfa::contains and Nfa::into_dfa, under SpecNfa, and     *)
(* about Nfa::to_regex, under SpecRegex.                                   *)

\* The word w is in the language of the operation with handle h of the regex r:
\* Epsilon, Match, Star, Or and Concat with their usual meaning.
RECURSIVE Matches(_, _, _)
Matches(r, h, w) ==
    LET op == r.subs[h + 1]
    IN  CASE op[1] = "Epsilon" -> w = <<>>
          [] op[1] = "Match"   -> w = <<op[2]>>
          [] op[1] = "Or"      -> Matches(r, op[2], w) \/ Matches(r, op[3], w)
          [] op[1] = "Concat"  ->
                 \E k \in 0..Len(w) :
                     /\ Matches(r, op[2], SubSeq(w, 1, k))
                     /\ Matches(r, op[3], SubSeq(w, k + 1, Len(w)))
          [] op[1] = "Star"    ->
                 \/ w = <<>>
                 \/ \E k \in 1..Len(w) :
                        /\ Matches(r, op[2], SubSeq(w, 1, k))
                        /\ Matches(r, h, SubSeq(w, k + 1, Len(w)))

\* C5: for every Nfa N built by Nfa::from_edges, every list E of extra symbols
\* that label no edge of N and every word w over the symbols of N and E, the
\* empty word included, N.into_dfa(E) is a Dfa whose contains(w) equals
\* N.contains(w).
C5_IntoDfa ==
    (pc = "into_dfa" /\ SeqRange(arg) \cap SeqRange(NonDeterministic_alphabet(nfa.graph)) = {}) =>
        /\ rhs.tag = "dfa"
        /\ \A w \in WordsOver(SeqRange(NonDeterministic_alphabet(nfa.graph)) \cup SeqRange(arg)) :
               Dfa_contains(rhs, w) = Nfa_contains(nfa, w)

\* N accepts the empty word and N.into_dfa([]) does not.
C5_Witness ==
    /\ pc = "into_dfa" /\ arg = <<>> /\ rhs.tag = "dfa"
    /\ Nfa_contains(nfa, <<>>) = Ok(TRUE)
    /\ Dfa_contains(rhs, <<>>) = Ok(FALSE)

\* C6: for every Nfa N for which to_regex returns and every word w,
\* N.contains(w) holds exactly when w is in the language of the regex rooted at
\* N.to_regex().root().
C6_ToRegex ==
    (pc = "to_regex" /\ ret.tag = "ok") =>
        \A w \in Words :
            Nfa_contains(nfa, w) = Ok(Matches(ret.regex, Unwrap(Regex_root(ret.regex)), w))

\* to_regex has returned a regex with a Star whose language has a word of two
\* symbols and lacks another.
C6_Witness ==
    /\ pc = "to_regex" /\ ret.tag = "ok"
    /\ \E i \in 1..Len(ret.regex.subs) : ret.regex.subs[i][1] = "Star"
    /\ \E w \in Words : Len(w) = 2 /\ Nfa_contains(nfa, w) = Ok(TRUE)
    /\ \E w \in Words : Nfa_contains(nfa, w) = Ok(FALSE)

\* C7: Nfa::contains(w) is true exactly when the Nfa has a path from node 0 to
\* some final node whose character labels, epsilon edges skipped, spell w;
\* epsilon edges may be taken before, between and after the symbols.
C7_NfaContains ==
    pc = "nfa_contains" => ret = Ok(HasAcceptingPath(nfa, arg))

\* contains has failed on the empty word where node 0 is final: the Nfa was
\* built from an empty edge list.
C7_Witness ==
    /\ pc = "nfa_contains" /\ arg = <<>>
    /\ 0 \in nfa.finals /\ IsPanic(ret)

---------------------------------------------------------------------------
(* Further claims about Dfa::from_edges, under SpecDfa.                    *)

\* The nodes the edge list speaks of, as sources or as targets.
InputNodes ==
    {edge_iter[i][1] : i \in 1..Len(edge_iter)} \cup {edge_iter[i][3] : i \in 1..Len(edge_iter)}

\* The symbols on the edges of the edge list.
InputSymbols == {edge_iter[i][2] : i \in 1..Len(edge_iter)}

\* The number of edges of the edge list that leave the node with the symbol.
OutDegree(node, a) ==
    Cardinality({i \in 1..Len(edge_iter) : edge_iter[i][1] = node /\ edge_iter[i][2] = a})

\* C11: Dfa::from_edges fails whenever some node of the input, a node that
\* occurs only as an edge target included, and some symbol of the alphabet has
\* no outgoing edge or more than one outgoing edge in the input list.
C11_RejectsIncompleteOrDuplicate ==
    (/\ pc = "from_edges"
     /\ \E node \in InputNodes : \E a \in InputSymbols : OutDegree(node, a) # 1)
        => IsPanic(dfa)

\* from_edges has returned a Dfa for an edge list that gives node 0 the same
\* edge twice.
C11_Witness ==
    /\ pc = "from_edges"
    /\ edge_iter = <<<<0, 1, 0>>, <<0, 1, 0>>>> /\ finals_in = <<>>
    /\ dfa.tag = "dfa"

\* C12: whenever Dfa::from_edges returns a Dfa, for every node s and every
\* symbol a of its alphabet the stored target t of (s, a) is a declared one:
\* the triple (s, a, t) occurs in the input edge list.
C12_TargetsDeclared ==
    (pc = "from_edges" /\ dfa.tag = "dfa") =>
        \A t \in DfaTriples(dfa) : t \in SeqRange(edge_iter)

\* from_edges has returned a Dfa that stores 1 -a-> 0 for an edge list whose
\* node 1 has the single edge 1 -b-> 0.
C12_Witness ==
    /\ pc = "from_edges" /\ dfa.tag = "dfa"
    /\ <<1, 2, 0>> \in SeqRange(edge_iter)
    /\ <<1, 1, 0>> \in DfaTriples(dfa) \ SeqRange(edge_iter)


---------------------------------------------------------------------------
(* Further claims about Nfa::contains, under SpecNfa. *)

\* The symbols that label an edge of the finished graph.
EdgeSymbols(n) == SeqRange(NonDeterministic_alphabet(n.graph))

\* C13: Nfa::contains returns false, and does not fail, for every word that
\* contains a symbol which labels no edge of the NFA.
C13_UnknownSymbolRejected ==
    (/\ pc = "nfa_contains"
     /\ \E i \in 1..Len(arg) : arg[i] \notin EdgeSymbols(nfa)) => ret = Ok(FALSE)

\* contains fails on a word with an unknown symbol: the Nfa has no edge at all.
C13_Witness ==
    /\ pc = "nfa_contains"
    /\ arg = <<1>> /\ 1 \notin EdgeSymbols(nfa)
    /\ IsPanic(ret)


---------------------------------------------------------------------------
(* Further claims about Nfa::to_regex, under SpecRegex. *)

\* C20: for every Nfa built by Nfa::from_edges, when the elimination loop of
\* to_regex has finished the edge multimap contains exactly one key,
\* (Start, End), holding exactly one regex handle, so to_regex returns a regex
\* instead of failing.
C20_OnlyStartToEnd ==
    pc = "to_regex" =>
        LET st == to_regex_eliminated(nfa, arg)
        IN  /\ DOMAIN st.edges = {<<Start, End>>}
            /\ Len(st.edges[<<Start, End>>]) = 1
            /\ ret.tag = "ok"

\* to_regex has failed on an Nfa with a final node that node 0 reaches: the
\* elimination loop left edges of the real node 1 behind.
C20_Witness ==
    /\ pc = "to_regex" /\ IsPanic(ret)
    /\ nfa.finals = {1} /\ Nfa_contains(nfa, <<1>>) = Ok(TRUE)
    /\ <<Real(1), End>> \in DOMAIN to_regex_eliminated(nfa, arg).edges


---------------------------------------------------------------------------
(* The claims about Dma and Run, under SpecDma. *)

\* What a Dma shows of its states: the state count, the edge array, the
\* final-state set and the transition table.
Shown(d) == <<d.next_state, d.edges, d.final_states, d.transitions>>

\* After the step, the last call on Run i is a new one, `kind` by name.
JustCalled(i, kind) ==
    /\ pc = "run"
    /\ Len(arg'[i]) = Len(arg[i]) + 1
    /\ arg'[i][Len(arg'[i])][1] = kind

\* C14: a Run never changes the Dma it was started from: over every run, next
\* or matches call the template keeps its state count, edge array, final-state
\* set and transition table, and a call on one Run leaves the state and the
\* Dma of every other Run as they were.
C14_RunKeepsTemplate ==
    [][/\ pc' = "run" => Shown(dmas'[Template]) = Shown(dmas[Template])
       /\ (pc = "run" /\ pc' = "run") =>
              \A i \in 1..Len(runs) :
                  arg'[i] = arg[i] =>
                      /\ runs'[i].state = runs[i].state
                      /\ Shown(dmas'[runs'[i].backing]) = Shown(dmas[runs[i].backing])]_vars

\* Two Runs of one template have derived a different number of states, the
\* template none.
C14_Witness ==
    /\ pc = "run" /\ Len(runs) = 2
    /\ dmas[runs[1].backing].next_state = dmas[Template].next_state + 2
    /\ dmas[runs[2].backing].next_state = dmas[Template].next_state + 1
    /\ dmas[Template].next_state = 1

C16_FailedNextKeepsRun ==
    [][\A i \in 1..Len(runs) :
           (JustCalled(i, "next") /\ pc' = "run" /\ ret'[i][Len(ret'[i])].tag = "err") =>
               /\ runs'[i].state = runs[i].state
               /\ dmas'[runs'[i].backing].next_state = dmas[runs[i].backing].next_state
               /\ dmas'[runs'[i].backing].edges = dmas[runs[i].backing].edges
               /\ dmas'[runs'[i].backing].final_states = dmas[runs[i].backing].final_states]_vars

\* The first next of a Run, on a symbol of the alphabet, has returned
\* InvalidChar: the error came out of the creation of a state, whose creator
\* named a symbol that is not in the alphabet.
C16_Witness ==
    /\ pc = "run"
    /\ \E i \in 1..Len(runs) :
           /\ arg[i] = << <<"next", <<1>> >> >>
           /\ 1 \in SeqRange(dmas[Template].alphabet)
           /\ ret[i] = <<Err("InvalidChar")>>


\* The edge that Run r follows on the symbol c of its alphabet: the entry of the
\* edge array for (r.state, c), None if the array is too short to have it.
FollowedEdge(r, c) ==
    LET d  == r.backing
        at == Len(d.alphabet) * r.state + (CHOOSE k \in 1..Len(d.alphabet) : d.alphabet[k] = c)
    IN  IF at <= Len(d.edges) THEN Some(d.edges[at]) ELSE None

\* Feeding w to Run r one next at a time: the Run as it is when a next first
\* returns an error, with that error; None if no next does.
RECURSIVE UntilFirstError(_, _)
UntilFirstError(r, w) ==
    IF w = <<>> THEN None
    ELSE LET step == Run_next(r, Head(w))
         IN  IF IsPanic(step) THEN None
             ELSE IF step.result.tag = "err" THEN Some([run |-> r, result |-> step.result])
             ELSE UntilFirstError(step.run, Tail(w))

\* C17: Run::next(c) returns InvalidChar when c is not in the alphabet,
\* NoSuchEdge when the transition id of the edge it follows is not in the
\* transition table, and NoSuchState when the edge is Creating and its target
\* is not an existing state; Run::matches returns the first such error and
\* leaves the Run as it was when that error came, no later symbol consumed.
C17_Errors ==
    [][\A i \in 1..Len(runs) :
           /\ JustCalled(i, "next") =>
                  LET d        == dmas[runs[i].backing]
                      c        == arg'[i][Len(arg'[i])][2][1]
                      result   == ret'[i][Len(ret'[i])]
                      followed == FollowedEdge(RunOf(i), c)
                      edge     == Unwrap(followed)
                  IN  /\ c \notin SeqRange(d.alphabet) => result = Err("InvalidChar")
                      /\ (c \in SeqRange(d.alphabet) /\ IsSome(followed)) =>
                             /\ edge.transition \notin 0..(Len(d.transitions) - 1) =>
                                    result = Err("NoSuchEdge")
                             /\ (/\ edge.transition \in 0..(Len(d.transitions) - 1)
                                 /\ d.transitions[edge.transition + 1][1] = "Creating"
                                 /\ edge.target \notin 0..(d.next_state - 1)) =>
                                    result = Err("NoSuchState")
           /\ JustCalled(i, "matches") =>
                  LET first == UntilFirstError(RunOf(i), arg'[i][Len(arg'[i])][2])
                  IN  IsSome(first) =>
                          /\ pc' = "run"
                          /\ ret'[i][Len(ret'[i])] = Unwrap(first).result
                          /\ runs'[i].state = Unwrap(first).run.state
                          /\ dmas'[runs'[i].backing] = Unwrap(first).run.backing]_vars

\* matches has returned NoSuchState for a word of two symbols whose first
\* symbol failed, on a Run that would have moved on the second.
C17_Witness ==
    /\ pc = "run"
    /\ \E i \in 1..Len(runs) :
           /\ Len(arg[i]) = 1 /\ arg[i][1][1] = "matches" /\ Len(arg[i][1][2]) = 2
           /\ ret[i] = <<Err("NoSuchState")>>
           /\ runs[i].state = 0 /\ dmas[runs[i].backing] = dmas[Template]
           /\ LET after == Run_next(RunOf(i), arg[i][1][2][2])
              IN  /\ after.tag = "ok"
                  /\ after.result = Ok(Unit)
                  /\ after.run.state # runs[i].state

\* C18: Dma::new_state fails (aborts) when the number of edges supplied for the
\* new state differs from the size of the alphabet.
C18_NewStateRejects ==
    (/\ pc \in {"dma", "aborted"} /\ runs = <<>>
     /\ arg[1] = "new_state"
     /\ Len(arg[3]) # Len(dmas[Template].alphabet)) => IsPanic(ret)

\* new_state has returned State(0) for an empty edge list, the alphabet having
\* two symbols.
C18_Witness ==
    /\ pc = "dma" /\ arg[1] = "new_state"
    /\ arg[3] = <<>> /\ Len(dmas[Template].alphabet) = 2
    /\ ret = Ok(0)
    /\ dmas[Template].next_state = 1 /\ dmas[Template].edges = <<>>

\* C19: in every state of a Dma reachable by new_transition and new_state calls,
\* and in every state of a Run's private copy reachable by next calls, the edge
\* array has at least next_state * |alphabet| entries.
C19_EdgeArrayCovers ==
    pc \in {"dma", "run", "aborted"} =>
        \A k \in 1..Len(dmas) :
            Len(dmas[k].edges) >= dmas[k].next_state * Len(dmas[k].alphabet)

\* A Run has taken a next and moved, and the edge array of its Dma is shorter
\* than next_state * |alphabet|.
C19_Witness ==
    /\ pc = "run"
    /\ \E i \in 1..Len(runs) :
           /\ arg[i] # <<>> /\ arg[i][1][1] = "next" /\ ret[i][1] = Ok(Unit)
           /\ Len(dmas[runs[i].backing].edges) <
                  dmas[runs[i].backing].next_state * Len(dmas[runs[i].backing].alphabet)


---------------------------------------------------------------------------
(* Further claims about Nfa::to_regex, under SpecEpsilon. *)

\* C21: in to_regex the handle stored under (Start, End) after elimination is
\* the root of the returned regex, the operation pushed last into the DAG, for
\* every Nfa for which the (Start, End) entry exists.
C21_StartToEndIsRoot ==
    pc = "to_regex" =>
        LET st == to_regex_eliminated(nfa, arg)
        IN  (<<Start, End>> \in DOMAIN st.edges /\ st.edges[<<Start, End>>] # <<>>) =>
                Some(st.edges[<<Start, End>>][Len(st.edges[<<Start, End>>])])
                    = Regex_root(Cached_into_inner(st.cached))

\* to_regex has failed its last assertion: (Start, End) was the only entry left
\* and its handle was not the root.
C21_Witness ==
    /\ pc = "to_regex"
    /\ ret = Panic("Start to end must be the regex root")
    /\ DOMAIN to_regex_eliminated(nfa, arg).edges = {<<Start, End>>}


---------------------------------------------------------------------------
(* The claims about Regex and Cached, under SpecCached. *)

\* The operation vector of regex_self, a Regex or a Cached.
SubsOf(v) == IF "subs" \in DOMAIN v THEN v.subs ELSE v.regex.subs

\* The calls so far are cached() on the empty regex and then inserts only.
InsertsOnEmpty ==
    /\ arg # <<>> /\ arg[1][1] = "cached"
    /\ \A k \in 2..Len(arg) : arg[k][1] = "insert"

\* C22: on a Cached wrapper created from an empty regex, after any sequence of
\* insert calls: insert(op) for an op inserted before returns the handle
\* returned the first time and leaves the operation vector unchanged, insert of
\* a new op appends exactly one operation, and no two positions of the
\* operation vector hold equal operations.
C22_CachedInsert ==
    (pc \in {"cached", "aborted"} /\ InsertsOnEmpty) =>
        LET subs     == SubsOf(regex_self)
            returned == {k \in 2..Len(arg) : ~IsPanic(ret[k])}
        IN  /\ \A k, l \in returned : arg[k] = arg[l] => ret[k] = ret[l]
            /\ Len(subs) = Cardinality({arg[k][2] : k \in returned})
            /\ \A k \in returned : subs[ret[k].val + 1] = arg[k][2]
            /\ \A i, j \in 1..Len(subs) : subs[i] = subs[j] => i = j

\* Three inserts on a Cached made from the empty regex, the third of the
\* operation inserted first: it returned the first handle and the vector has
\* two operations.
C22_Witness ==
    /\ pc = "cached" /\ InsertsOnEmpty
    /\ Len(arg) = 4 /\ arg[4] = arg[2] /\ arg[3] # arg[2]
    /\ ret[2] = Ok(0) /\ ret[3] = Ok(1) /\ ret[4] = Ok(0)
    /\ Len(SubsOf(regex_self)) = 2

\* C23: after any sequence of Regex::push and Cached::insert calls, every
\* handle inside the operation stored at index i is strictly less than i; a
\* push whose operation names a handle >= the current length aborts and
\* appends nothing.
C23_HandlesBelowIndex ==
    [][(pc \in {"regex", "cached"}) =>
           LET subs   == SubsOf(regex_self)
               after  == SubsOf(regex_self')
               called == arg'[Len(arg')]
           IN  /\ \A i \in 1..Len(after) : \A h \in OpHandles(after[i]) : h < i - 1
               /\ (called[1] = "push" /\ \E h \in OpHandles(called[2]) : h >= Len(subs)) =>
                      /\ IsPanic(ret'[Len(ret')])
                      /\ pc' = "aborted"
                      /\ after = subs]_vars

\* A push of Concat(1, 2) on a regex of two operations, the second a Star of
\* the first, has aborted.
C23_Witness ==
    /\ pc = "aborted"
    /\ SubsOf(regex_self) = <<OpEpsilon, OpStar(0)>>
    /\ arg[Len(arg)] = <<"push", OpConcat(1, 2)>>
    /\ IsPanic(ret[Len(ret)])

---------------------------------------------------------------------------
(* The claim about the Deterministic graph, under SpecGraph. *)

StrictlyIncreasing(v) == \A i \in 1..(Len(v) - 1) : v[i] < v[i + 1]

\* What holds of a Deterministic graph g at every moment.
GraphShape(g) ==
    /\ StrictlyIncreasing(g.alphabet)
    /\ Len(g.edges) = g.next_id * Len(g.alphabet)
    /\ \A h \in 0..(MaxGraphNodes + 1) :
          IsSome(Deterministic_edges(g, h)) <=> h < g.next_id

\* C24: a Deterministic graph made by new from any list of symbols (unsorted,
\* with duplicates) has, before and after every node() call and edge write, a
\* strictly increasing alphabet and exactly node_count * |alphabet| edge
\* slots; edges(h) is present exactly when h < node_count; and each node()
\* call appends exactly |alphabet| absent slots, leaves the earlier slots as
\* they were and returns the node_count of before the call.
C24_GraphShape ==
    [][/\ GraphShape(graph_self)
       /\ GraphShape(graph_self')
       /\ (arg'[1] = "edges") =>
             (IsSome(ret') <=> arg'[2] < graph_self.next_id)
       /\ (graph_self'.next_id # graph_self.next_id) =>
             /\ arg' = <<"node">>
             /\ ret' = Ok(graph_self.next_id)
             /\ graph_self'.next_id = graph_self.next_id + 1
             /\ graph_self'.alphabet = graph_self.alphabet
             /\ Len(graph_self'.edges) = Len(graph_self.edges) + Len(graph_self.alphabet)
             /\ SubSeq(graph_self'.edges, 1, Len(graph_self.edges)) = graph_self.edges
             /\ \A i \in (Len(graph_self.edges) + 1)..Len(graph_self'.edges) :
                   graph_self'.edges[i] = None]_vars

\* new was given an unsorted list with a duplicate, two nodes were made, an
\* edge of the first node was written, and edges(1) is present.
C24_Witness ==
    /\ pc = "graph"
    /\ graph_self.alphabet = <<1, 3>>
    /\ graph_self.next_id = 2
    /\ Len(graph_self.edges) = 4
    /\ IsSome(graph_self.edges[2])
    /\ arg = <<"edges", 1>>
    /\ IsSome(ret)

---------------------------------------------------------------------------
(* The claim about the NonDeterministic graph, under SpecNonDeterministic. *)

\* The ranges are contiguous and together cover the flat edge array.
RangesCover(g) ==
    /\ (g.ranges = <<>>) => (g.edges = <<>>)
    /\ (g.ranges # <<>>) =>
          /\ g.ranges[1][1] = 0
          /\ g.ranges[Len(g.ranges)][2] = Len(g.edges)
    /\ \A n \in 1..Len(g.ranges) : g.ranges[n][1] <= g.ranges[n][2]
    /\ \A n \in 1..(Len(g.ranges) - 1) : g.ranges[n][2] = g.ranges[n + 1][1]

\* Inside each range the labels never decrease, so that the epsilon edges,
\* of the lowest label, come before the character edges.
RangesSorted(g) ==
    \A n \in 1..Len(g.ranges) :
        \A i, j \in (g.ranges[n][1] + 1)..g.ranges[n][2] :
            i < j => /\ g.edges[i][1] <= g.edges[j][1]
                     /\ (g.edges[j][1] = LabelEPSILON => g.edges[i][1] = LabelEPSILON)

\* C25: every NonDeterministic graph that Builder::finish gives after a
\* sequence of insert calls, and that from_deterministic gives, has a
\* strictly increasing character table, contiguous ranges that cover the
\* flat edge array, and in each node's range the edges sorted by label with
\* the epsilon edges before the character edges.
C25_FinishedShape ==
    (pc = "finished") =>
        /\ StrictlyIncreasing(ret.characters)
        /\ RangesCover(ret)
        /\ RangesSorted(ret)

\* A builder given the symbol 3 before the symbol 1 and a character edge
\* before an epsilon edge of the same node was finished.
C25_Witness ==
    /\ pc = "finished"
    /\ arg = <<"finish">>
    /\ graph_self.characters = <<3, 1>>
    /\ graph_self.edges[1] # <<>>
    /\ graph_self.epsilons[1] # <<>>
    /\ Len(ret.ranges) = 2
    /\ Len(ret.edges) = 4

\* A Deterministic graph with an absent slot was converted.
C25_WitnessDeterministic ==
    /\ pc = "finished"
    /\ arg = <<"from_deterministic">>
    /\ graph_self.next_id = 2
    /\ Len(graph_self.alphabet) = 2
    /\ Len(ret.edges) = 3

---------------------------------------------------------------------------
(* The claims about the dot files, under SpecNfaDot and SpecDfaDot. *)

\* The line of an edge with the label text `label`, and of a final state.
EdgeLine(from, label, to) ==
    "\t" \o ToString(from) \o " -> " \o ToString(to) \o " [label=" \o label \o ",];\n"
PeripheriesLine(fin) == "\t" \o ToString(fin) \o " [peripheries=2,];\n"

\* The lines of ret between the first and the last.
Body(lines) == SubSeq(lines, 2, Len(lines) - 1)

\* The lines of the character edges and of the epsilon edges that an Nfa
\* over the nodes 0..2 and the symbols 0..2 can have.
CharacterLines == {EdgeLine(from, ToString(ch), to) : from \in 0..2, ch \in 0..2, to \in 0..2}
EpsilonLines == {EdgeLine(from, "\"ε\"", to) : from \in 0..2, to \in 0..2}
PeripheriesLines == {PeripheriesLine(fin) : fin \in 0..2}

\* nfa.rs, tests::build_and_format: the lines the test expects.
BuildAndFormatFixture ==
    <<"digraph {\n",
      "\t0 -> 0 [label=0,];\n",
      "\t0 -> 1 [label=1,];\n",
      "\t1 -> 0 [label=0,];\n",
      "\t0 -> 1 [label=\"ε\",];\n",
      "\t1 [peripheries=2,];\n",
      "}\n">>

\* C26: Nfa::write_to writes the lines of all character edges before the
\* line of any epsilon edge and the lines of the final states last, and for
\* the Nfa of the test build_and_format it writes the lines of the fixture.
C26_CharactersBeforeEpsilon ==
    (pc = "nfa_write_to") =>
        /\ \A i, j \in 1..Len(ret) :
              (i < j /\ ret[j] \in CharacterLines) => ret[i] \notin EpsilonLines
        /\ \A i, j \in 1..Len(ret) :
              (i < j /\ ret[i] \in PeripheriesLines) =>
                  ret[j] \in PeripheriesLines \cup {"}\n"}
        /\ (nfa = Nfa_from_edges(BuildAndFormatEdges, <<1>>)) =>
              ret = BuildAndFormatFixture

\* The Nfa of the test build_and_format was written.
C26_Witness ==
    /\ pc = "nfa_write_to"
    /\ nfa = Nfa_from_edges(BuildAndFormatEdges, <<1>>)
    /\ Len(ret) = 7

\* dfa.rs, tests::build_and_format: the lines the test expects.
Mod3Fixture ==
    <<"digraph {\n",
      "\t0 -> 0 [label=0,];\n",
      "\t0 -> 1 [label=1,];\n",
      "\t1 -> 2 [label=0,];\n",
      "\t1 -> 0 [label=1,];\n",
      "\t2 -> 1 [label=0,];\n",
      "\t2 -> 2 [label=1,];\n",
      "\t1 [peripheries=2,];\n",
      "}\n">>

\* C27: Dfa::write_to writes one edge line for every (state, symbol), the
\* states ascending and the symbols ascending within a state, then one line
\* for every final state and nothing else between the opening and the
\* closing line; for the mod-3 automaton of the test build_and_format the
\* lines are those of the fixture.
C27_DfaLines ==
    (pc = "write_to") =>
        LET states  == dfa.graph.next_id
            symbols == Len(dfa.graph.alphabet)
            written == Body(ret)
        IN  /\ ret[1] = "digraph {\n" /\ ret[Len(ret)] = "}\n"
            /\ Len(written) = states * symbols + Cardinality(dfa.finals)
            /\ \A q \in 0..(states - 1) : \A k \in 1..symbols :
                  written[q * symbols + k] =
                      EdgeLine(q, ToString(dfa.graph.alphabet[k]),
                               Unwrap(dfa.graph.edges[q * symbols + k]))
            /\ {written[i] : i \in (states * symbols + 1)..Len(written)} =
                  {PeripheriesLine(fin) : fin \in dfa.finals}
            /\ (dfa = Dfa_from_edges(Mod3Edges, <<1>>)) => ret = Mod3Fixture

\* The mod-3 automaton of the test was written.
C27_Witness ==
    /\ pc = "write_to"
    /\ dfa = Dfa_from_edges(Mod3Edges, <<1>>)
    /\ Len(ret) = 9

---------------------------------------------------------------------------
(* Further claims about Nfa::into_dfa, under SpecNfa. *)

\* The subsets of Nfa nodes that into_dfa has numbered, in the order of
\* their ids, for the call that gave rhs.
Subsets == into_dfa_explored(nfa, arg).state_map

\* C28: in the Dfa that Nfa::into_dfa builds, every state id, the id 0 of
\* the initial subset included, is final exactly when its subset of Nfa
\* nodes contains a final node of the Nfa.
C28_FinalSubsets ==
    (pc = "into_dfa" /\ rhs.tag = "dfa") =>
        \A id \in 0..(Len(Subsets) - 1) :
            (id \in rhs.finals) <=> (Subsets[id + 1] \cap nfa.finals # {})

\* into_dfa has returned a Dfa whose initial subset holds a final node.
C28_Witness ==
    /\ pc = "into_dfa" /\ rhs.tag = "dfa"
    /\ Subsets[1] \cap nfa.finals # {}
    /\ Len(Subsets) >= 2

\* C29: when the alphabet extension of Nfa::into_dfa names a symbol that
\* labels an edge of the Nfa, or names a symbol twice, the Dfa is the one
\* that into_dfa builds from the extension without the surplus symbols:
\* every symbol once, the same transitions.
C29_ExtensionIsSet ==
    (pc = "into_dfa") =>
        rhs = Nfa_into_dfa(nfa,
                  Dedup(SortSyms(SelectSeq(arg,
                      LAMBDA ch : ch \notin SeqRange(NonDeterministic_alphabet(nfa.graph))))))

\* into_dfa was given a symbol of an edge of the Nfa, and a Dfa came back
\* for the empty extension.
C29_Witness ==
    /\ pc = "into_dfa"
    /\ arg # <<>>
    /\ SeqRange(arg) \subseteq SeqRange(NonDeterministic_alphabet(nfa.graph))
    /\ Nfa_into_dfa(nfa, <<>>).tag = "dfa"

---------------------------------------------------------------------------
(* The claim about the elimination loop of Nfa::to_regex, under SpecRegex. *)

\* C30: the elimination loop of Nfa::to_regex is run for every node index of
\* the Nfa, from the highest down to 0, and for nothing else, whatever the
\* number of edges of the Nfa is.
C30_VisitsEveryNode ==
    (pc = "to_regex") =>
        to_regex_visited(nfa) =
            [i \in 1..Len(nfa.graph.ranges) |-> Len(nfa.graph.ranges) - i]

\* to_regex ran on an Nfa of two nodes and one edge and stopped in a panic.
C30_Witness ==
    /\ pc = "to_regex"
    /\ Len(nfa.graph.ranges) = 2
    /\ Len(nfa.graph.edges) = 1
    /\ IsPanic(ret)

---------------------------------------------------------------------------
(* Further claims about Dma and Run, under SpecDma. *)

\* The last call on Run i, after the step, returned Ok.
ReturnedOk(i) == pc' = "run" /\ ret'[i][Len(ret'[i])].tag = "ok"

\* C31: a successful Run::next over a Creating edge sets the current state to
\* the id that next_state had before the call, increases next_state by 1,
\* appends |alphabet| edges, leaves the edges and the finality of the earlier
\* states as they were and makes the new state final exactly when the
\* creator's is_final() is true; a successful next over a Standard edge sets
\* the current state to the target of the edge and changes nothing else.
C31_NextEffect ==
    [][\A i \in 1..Len(runs) :
           (JustCalled(i, "next") /\ ReturnedOk(i)) =>
               LET d      == dmas[runs[i].backing]
                   after  == dmas'[runs'[i].backing]
                   edge   == Unwrap(FollowedEdge(RunOf(i), arg'[i][Len(arg'[i])][2][1]))
                   kind   == d.transitions[edge.transition + 1]
               IN  IF kind[1] = "Creating"
                   THEN /\ runs'[i].state = d.next_state
                        /\ after.next_state = d.next_state + 1
                        /\ Len(after.edges) = Len(d.edges) + Len(d.alphabet)
                        /\ SubSeq(after.edges, 1, Len(d.edges)) = d.edges
                        /\ after.final_states \ {d.next_state} = d.final_states
                        /\ (d.next_state \in after.final_states)
                               <=> d.creator[kind[2] + 1].is_final
                        /\ after.transitions = d.transitions
                   ELSE /\ runs'[i].state = edge.target
                        /\ after = d]_vars

\* A Run has followed a Creating edge of a final creator and then a Standard
\* edge: it has one state more than its template, and that state is final.
C31_Witness ==
    /\ pc = "run"
    /\ \E i \in 1..Len(runs) :
           /\ Len(arg[i]) = 2 /\ arg[i][1][1] = "next" /\ arg[i][2][1] = "next"
           /\ ret[i] = <<Ok(Unit), Ok(Unit)>>
           /\ dmas[runs[i].backing].next_state = dmas[Template].next_state + 1
           /\ dmas[Template].next_state \in dmas[runs[i].backing].final_states
           /\ Len(dmas[runs[i].backing].edges) =
                  Len(dmas[Template].edges) + Len(dmas[Template].alphabet)

\* The position, from 0, of the symbol c in the alphabet of the Dma d.
PositionOf(d, c) == (CHOOSE k \in 1..Len(d.alphabet) : d.alphabet[k] = c) - 1

\* C32: the edges that derive_state(blueprint, creator) adds for the new
\* state follow the alphabet order, and the edge for the symbol a is
\* resolved from creator.edge(a): its target is the new state's own id for
\* SelfCycle and the target of the blueprint's b-edge for Target(b); its kind
\* is k when the creator gives Some(k), the kind of the blueprint's b-edge
\* when it gives None with Target(b), and the transition creator + 1 when it
\* gives None with SelfCycle.
C32_DerivedEdges ==
    [][\A i \in 1..Len(runs) :
           (/\ JustCalled(i, "next") /\ ReturnedOk(i)
            /\ dmas'[runs'[i].backing].next_state # dmas[runs[i].backing].next_state) =>
               LET d         == dmas[runs[i].backing]
                   after     == dmas'[runs'[i].backing]
                   followed  == Unwrap(FollowedEdge(RunOf(i), arg'[i][Len(arg'[i])][2][1]))
                   blueprint == followed.target
                   creator   == d.transitions[followed.transition + 1][2]
               IN  \A j \in 1..Len(d.alphabet) :
                       LET new     == d.creator[creator + 1].edge[d.alphabet[j]]
                           derived == after.edges[Len(d.edges) + j]
                           copied  == d.edges[Len(d.alphabet) * blueprint
                                              + PositionOf(d, new.target[2]) + 1]
                       IN  /\ derived.target =
                                  IF new.target = SelfCycle THEN d.next_state ELSE copied.target
                           /\ derived.transition =
                                  IF IsSome(new.kind) THEN Unwrap(new.kind)
                                  ELSE IF new.target = SelfCycle THEN creator + 1
                                  ELSE copied.transition]_vars

\* A state was derived over the alphabet <<2, 1>> by a creator that answers
\* SelfCycle with no kind for one symbol and Target with no kind for the
\* other, from a blueprint whose copied edge is a Creating one.
C32_Witness ==
    /\ pc = "run"
    /\ dmas[Template].alphabet = <<2, 1>>
    /\ \E i \in 1..Len(runs) :
           LET d == dmas[runs[i].backing]
           IN  /\ arg[i] # <<>> /\ arg[i][1][1] = "next" /\ ret[i][1] = Ok(Unit)
               /\ d.next_state = 2 /\ Len(d.edges) = 4
               /\ d.creator[1].edge[2] = NewEdge(SelfCycle, None)
               /\ d.creator[1].edge[1].kind = None
               /\ d.creator[1].edge[1].target # SelfCycle
               /\ d.edges[3] = [target |-> 1, transition |-> 1]
               /\ d.edges[4].transition = 1

---------------------------------------------------------------------------
(* The claim about Nfa::contains on every Nfa, under SpecNfa. *)

\* C33: for every Nfa that Nfa::from_edges builds, one built from an empty
\* edge list included, Nfa::contains returns a boolean for every word, and
\* for the empty word it returns true exactly when a final node is reachable
\* from node 0 by epsilon edges.
C33_ContainsReturns ==
    (pc = "nfa_contains") =>
        /\ ret.tag = "ok"
        /\ ret.val \in BOOLEAN
        /\ (arg = <<>>) => (ret.val <=> (EpsilonPaths(nfa, {0}) \cap nfa.finals # {}))

\* contains has failed on a word of two symbols: the Nfa was built from an
\* empty edge list and has no node at all.
C33_Witness ==
    /\ pc = "nfa_contains"
    /\ nfa.graph.ranges = <<>>
    /\ Len(arg) = 2
    /\ IsPanic(ret)

---------------------------------------------------------------------------
(* Further claims about the states a Run can reach, under SpecDma. *)

\* The Dma d is complete: the edge array has next_state * |alphabet| entries,
\* every edge has a target below next_state and a transition id of the
\* transition table, and every creator names symbols of the alphabet and
\* transition ids of the table only.
Complete(d) ==
    /\ Len(d.edges) = d.next_state * Len(d.alphabet)
    /\ \A k \in 1..Len(d.edges) :
           /\ d.edges[k].target < d.next_state
           /\ d.edges[k].transition < Len(d.transitions)
    /\ \A k \in 1..Len(d.creator) :
           \A a \in SeqRange(d.alphabet) :
               LET new == d.creator[k].edge[a]
               IN  /\ new.target = SelfCycle \/ new.target[2] \in SeqRange(d.alphabet)
                   /\ IsSome(new.kind) => Unwrap(new.kind) < Len(d.transitions)

\* C34: when the template is complete (every new_state call gave |alphabet|
\* edges with targets among the initial states and registered transition ids,
\* and the creators name alphabet symbols and registered transition ids only),
\* the Dma of every Run stays complete and the current state of the Run is
\* below next_state, and every next with a symbol of the alphabet has
\* returned Ok(()): none returned an error, none aborted.
C34_NextNeverFails ==
    (pc \in {"run", "aborted"} /\ runs # <<>> /\ Complete(dmas[Template])) =>
        \A i \in 1..Len(runs) :
            /\ Complete(dmas[runs[i].backing])
            /\ runs[i].state < dmas[runs[i].backing].next_state
            /\ \A k \in 1..Len(arg[i]) :
                   (/\ arg[i][k][1] = "next"
                    /\ arg[i][k][2][1] \in SeqRange(dmas[Template].alphabet)) =>
                       ret[i][k] = Ok(Unit)

\* Over the alphabet <<2, 1>> a Run of a complete template took two next
\* calls and derived a state in each: its Dma has two states and four edges
\* more than the template.
C34_Witness ==
    /\ pc = "run"
    /\ dmas[Template].alphabet = <<2, 1>>
    /\ Complete(dmas[Template])
    /\ \E i \in 1..Len(runs) :
           /\ Len(arg[i]) = 2 /\ arg[i][1][1] = "next" /\ arg[i][2][1] = "next"
           /\ ret[i] = <<Ok(Unit), Ok(Unit)>>
           /\ dmas[runs[i].backing].next_state = dmas[Template].next_state + 2
           /\ Len(dmas[runs[i].backing].edges) = Len(dmas[Template].edges) + 4

---------------------------------------------------------------------------
(* The claim about the worklists of Nfa::into_dfa, under SpecNfa. *)

\* The subsets of Nfa nodes reachable from the subsets S: for a subset and a
\* symbol, the epsilon closure of the targets of the subset's edges with that
\* symbol.
RECURSIVE ReachableSubsets(_, _, _)
ReachableSubsets(n, symbols, S) ==
    LET more == S \cup {EpsilonPaths(n, {t[3] : t \in {u \in NfaTriples(n) :
                                                  u[1] \in s /\ u[2] = Some(a)}}) :
                           s \in S, a \in symbols}
    IN  IF more = S THEN S ELSE ReachableSubsets(n, symbols, more)

\* The symbols of the call that gave rhs: those of the edges of the Nfa and
\* those of the extension.
IntoDfaSymbols == SeqRange(NonDeterministic_alphabet(nfa.graph)) \cup SeqRange(arg)

\* C35: for every Nfa, those with epsilon cycles and self-loops included, the
\* worklist of Nfa::into_dfa comes to its end; every subset of Nfa nodes
\* reachable from the epsilon closure of {0}, the empty subset included, has
\* exactly one state id, was taken from the worklist exactly once and has
\* exactly one outgoing edge for every symbol of the alphabet.
C35_WorklistsTerminate ==
    (pc = "into_dfa") =>
        LET st == into_dfa_explored(nfa, arg)
        IN  /\ ~IsPanic(st)
            /\ SeqRange(st.state_map) =
                   ReachableSubsets(nfa, IntoDfaSymbols, {EpsilonPaths(nfa, {0})})
            /\ \A i, j \in 1..Len(st.state_map) :
                   st.state_map[i] = st.state_map[j] => i = j
            /\ \A i \in 1..Len(st.state_map) :
                   Cardinality({k \in 1..Len(st.popped) : st.popped[k] = st.state_map[i]}) = 1
            /\ \A id \in 0..(Len(st.state_map) - 1) : \A a \in IntoDfaSymbols :
                   Cardinality({k \in 1..Len(st.edges) :
                                    st.edges[k][1] = id /\ st.edges[k][2] = a}) = 1

\* into_dfa has numbered three subsets, the empty one among them, of an Nfa
\* with an epsilon self-loop, and has recorded two edges of the initial
\* subset for one symbol: the extension names a symbol of the Nfa's edges.
C35_Witness ==
    /\ pc = "into_dfa"
    /\ ~IsPanic(into_dfa_explored(nfa, arg))
    /\ Len(into_dfa_explored(nfa, arg).state_map) >= 2
    /\ {} \in SeqRange(into_dfa_explored(nfa, arg).state_map)
    /\ \E t \in NfaTriples(nfa) : t[1] = t[3] /\ t[2] = None
    /\ \E a \in SeqRange(arg) :
           Cardinality({k \in 1..Len(into_dfa_explored(nfa, arg).edges) :
                            /\ into_dfa_explored(nfa, arg).edges[k][1] = 0
                            /\ into_dfa_explored(nfa, arg).edges[k][2] = a}) = 2


\* The symbols that the calls on Run i have handed to it, in their order.
RECURSIVE Consumed_symbols(_)
Consumed_symbols(calls) ==
    IF calls = <<>> THEN <<>>
    ELSE Head(calls)[2] \o Consumed_symbols(Tail(calls))

\* The number of Creating edges that the Run r follows when it is fed w.
RECURSIVE CreatingFollowed(_, _)
CreatingFollowed(r, w) ==
    IF w = <<>> THEN 0
    ELSE LET edge == Unwrap(FollowedEdge(r, Head(w)))
             kind == r.backing.transitions[edge.transition + 1]
         IN  (IF kind[1] = "Creating" THEN 1 ELSE 0)
                 + CreatingFollowed(Run_next(r, Head(w)).run, Tail(w))

\* C36: after a Run has consumed n symbols and no call returned an error,
\* its number of states is that of the template plus the number of Creating
\* edges it followed, which is at most n, and its edge array has grown by
\* |alphabet| entries for each Creating edge followed.
C36_GrowthPerCreatingEdge ==
    (pc = "run") =>
        \A i \in 1..Len(runs) :
            (\A k \in 1..Len(ret[i]) : ret[i][k].tag = "ok") =>
                LET template == dmas[Template]
                    d        == dmas[runs[i].backing]
                    w        == Consumed_symbols(arg[i])
                    followed == CreatingFollowed([backing |-> template, state |-> 0], w)
                IN  /\ d.next_state = template.next_state + followed
                    /\ d.next_state <= template.next_state + Len(w)
                    /\ Len(d.edges) = Len(template.edges) + followed * Len(template.alphabet)

\* matches has returned for a word of two symbols over the alphabet <<2, 1>>,
\* and the Run followed a Creating edge on each.
C36_Witness ==
    /\ pc = "run"
    /\ dmas[Template].alphabet = <<2, 1>>
    /\ \E i \in 1..Len(runs) :
           /\ Len(arg[i]) = 1 /\ arg[i][1][1] = "matches" /\ Len(arg[i][1][2]) = 2
           /\ ret[i][1].tag = "ok"
           /\ CreatingFollowed([backing |-> dmas[Template], state |-> 0], arg[i][1][2]) = 2
           /\ dmas[runs[i].backing].next_state = dmas[Template].next_state + 2

---------------------------------------------------------------------------
(* The claim about Edges::restrict_to on finished graphs, under            *)
(* SpecNonDeterministic.                                                   *)

\* How often x occurs in the sequence v.
Occurrences(v, x) == Cardinality({k \in 1..Len(v) : v[k] = x})

\* The targets of the edges that were inserted into the builder b from the
\* node with the label `character`, an Option<A>, in the order of the calls.
InsertedTargets(b, node, character) ==
    IF character = None THEN b.epsilons[node + 1]
    ELSE targets(SelectSeq(b.edges[node + 1],
                           LAMBDA e : b.characters[e[1] + 1] = Unwrap(character)))

\* C37: in the graph finished from a sequence of Builder::insert calls, for
\* every node n the edges of n restricted with restrict_to(Some(c)) give the
\* targets of the inserted edges (n, c, t), each as often as it was inserted,
\* restricted with restrict_to(None) they give the targets of the inserted
\* epsilon edges of n, and restricted with a character that was never
\* inserted they give nothing.
C37_RestrictTo ==
    (pc = "finished" /\ arg = <<"finish">>) =>
        \A node \in 0..(Len(ret.ranges) - 1) :
            \A character \in {None} \cup {Some(c) : c \in GraphSymbols} :
                LET restricted == restrict_to(ret, Unwrap(NonDeterministic_edges(ret, node)),
                                              character)
                    inserted   == InsertedTargets(graph_self, node, character)
                IN  /\ Len(restricted) = Len(inserted)
                    /\ \A t \in 0..MaxBuilderNode :
                           Occurrences(targets(restricted), t) = Occurrences(inserted, t)
                    /\ (character # None /\ Unwrap(character) \notin SeqRange(graph_self.characters))
                           => restricted = <<>>

\* Node 0 was given the same edge twice, an epsilon edge and an edge with the
\* symbol 3; the finished graph gives the target twice for the symbol 1 and
\* nothing for the symbol 2.
C37_Witness ==
    /\ pc = "finished" /\ arg = <<"finish">>
    /\ Len(graph_self.edges) = 2
    /\ Len(graph_self.edges[1]) = 3
    /\ Len(graph_self.epsilons[1]) = 1
    /\ InsertedTargets(graph_self, 0, Some(1)) = <<1, 1>>
    /\ targets(restrict_to(ret, Unwrap(NonDeterministic_edges(ret, 0)), Some(1))) = <<1, 1>>
    /\ restrict_to(ret, Unwrap(NonDeterministic_edges(ret, 0)), Some(2)) = <<>>

---------------------------------------------------------------------------
(* The claim about matches called twice on one Run, under SpecMatches. *)

\* C38: Run::matches goes on from where the Run is: when matches(w1) has
\* returned without error, matches(w2) on the same Run returns what
\* matches(w1 followed by w2) returns on a fresh Run of the same template,
\* and leaves the same current state and the same derived states; it aborts
\* exactly when that call aborts.
C38_MatchesGoesOn ==
    (/\ pc \in {"run", "aborted"} /\ runs # <<>>
     /\ Len(arg[1]) = 2 /\ ret[1][1].tag = "ok") =>
        LET fresh == [backing |-> dmas[Template], state |-> 0]
            whole == Run_matches(fresh, arg[1][1][2] \o arg[1][2][2])
        IN  IF IsPanic(whole) \/ pc = "aborted"
            THEN IsPanic(whole) /\ pc = "aborted" /\ ret[1][2] = whole
            ELSE /\ ret[1][2] = whole.result
                 /\ runs[1].state = whole.run.state
                 /\ dmas[runs[1].backing] = whole.run.backing

\* matches was called twice with one symbol each, a state was derived in
\* each call and the second call returned true.
C38_Witness ==
    /\ pc = "run" /\ runs # <<>>
    /\ Len(arg[1]) = 2
    /\ Len(arg[1][1][2]) = 1 /\ Len(arg[1][2][2]) = 1
    /\ ret[1][1].tag = "ok"
    /\ ret[1][2] = Ok(TRUE)
    /\ dmas[runs[1].backing].next_state = dmas[Template].next_state + 2
    /\ runs[1].state = dmas[Template].next_state + 1

---------------------------------------------------------------------------
(* The claim about the transition table, under SpecTransitions. *)

\* C39: after Dma::new and any sequence of new_transition calls, in the
\* template and in the Dma of every Run, the transition id 0 is Standard and
\* the transition id k >= 1 is Creating with the creator id k - 1, which is
\* registered; and no Run::next has returned NoSuchCreator.
C39_TransitionTable ==
    (pc \in {"dma", "run", "aborted"}) =>
        /\ \A place \in 1..Len(dmas) :
               LET d == dmas[place]
               IN  /\ d.transitions[1] = Standard
                   /\ \A k \in 1..(Len(d.transitions) - 1) :
                          /\ d.transitions[k + 1] = Creating(k - 1)
                          /\ IsSome(Dma_creator(d, k - 1))
        /\ (runs # <<>>) =>
               \A i \in 1..Len(runs) : \A k \in 1..Len(ret[i]) :
                   ret[i][k].tag = "err" => ret[i][k].err # "NoSuchCreator"

\* A Run of a template with two kinds of Creating transition has followed an
\* edge of the transition id 2 and derived a state with the second creator.
C39_Witness ==
    /\ pc = "run" /\ runs # <<>>
    /\ Len(dmas[Template].transitions) = 3
    /\ dmas[Template].creator[1].is_final # dmas[Template].creator[2].is_final
    /\ arg[1] # <<>>
    /\ ret[1][1] = Ok(Unit)
    /\ Unwrap(FollowedEdge([backing |-> dmas[Template], state |-> 0], arg[1][1][2][1])).transition = 2
    /\ dmas[runs[1].backing].next_state = 2
    /\ (1 \in dmas[runs[1].backing].final_states) <=> dmas[Template].creator[2].is_final

---------------------------------------------------------------------------
(* The claim about the text of an Id, under SpecId. *)

\* The characters of the string with a backslash put in front of every double
\* quote, joined.
RECURSIVE Escaped(_)
Escaped(name) ==
    IF name = <<>> THEN ""
    ELSE (IF Head(name) = "\"" THEN "\\\"" ELSE Head(name)) \o Escaped(Tail(name))

\* C40: an Id built from a string with one or more double quotes, at any
\* positions, is written as the string between double quotes with one
\* backslash in front of every double quote of the string and every other
\* character where it was; the empty string is written as two double quotes,
\* a string of digits and a C-style identifier are written as they are.
C40_IdRendering ==
    (pc = "format") =>
        /\ (\E i \in 1..Len(arg) : arg[i] = "\"") => ret = "\"" \o Escaped(arg) \o "\""
        /\ (arg = <<>>) => ret = "\"\""
        /\ (arg # <<>> /\ \A i \in 1..Len(arg) : is_ascii_digit(arg[i])) => ret = Join(arg)
        /\ (/\ arg # <<>>
            /\ \A i \in 1..Len(arg) :
                   is_ascii_alphabetic(arg[i]) \/ is_ascii_digit(arg[i]) \/ arg[i] = "_"
            /\ ~is_ascii_digit(arg[1])) => ret = Join(arg)

\* The Id of the string a"1 was written: the quote and its backslash come
\* after the 1.
C40_Witness ==
    /\ pc = "format"
    /\ arg = <<"a", "\"", "1">>
    /\ ret = "\"a1\\\"\""

=============================================================================
